---- MODULE Spec2Model ----
(***************************************************************************)
(* A model of the OSC codec of wrsturgeon/osc: the 4-byte padder           *)
(* (batch.rs), the aligned reader (decode.rs), the atomic values           *)
(* (atomic.rs), type tags (tag.rs, dynamic.rs), addresses (address.rs)     *)
(* and message assembly (message.rs, tuple.rs, into_osc.rs).               *)
(*                                                                         *)
(* A byte is a number in 0..255, a byte iterator is the sequence of the    *)
(* bytes it has yet to yield, Option<T> is <<>> (None) or <<x>> (Some(x)), *)
(* Result<T, E> is [ok |-> TRUE, val |-> v] or [ok |-> FALSE, err |-> e],  *)
(* and an error value is a tuple <<"Variant", payload...>>.                *)
(***************************************************************************)
EXTENDS Integers, Sequences, FiniteSets, TLC

VARIABLES
    input,   \* the value or byte stream the run started from
    pc,      \* position of the run
    op,      \* the operation that produced `result`
    iter,    \* the byte iterator being read: the bytes it has yet to yield
    cache,   \* the Cache of the Batched iterator being stepped
    wire,    \* the bytes produced so far
    result   \* the Result the last operation returned

vars == <<input, pc, op, iter, cache, wire, result>>

\* ------------------------------------------------------------------ bounds

\* Longest byte sequence fed to the padder and longest blob.
MaxBytes == 5

\* Longest Rust string turned into an OSC string.
MaxStr == 5

\* Longest tag sequence enumerated in full.
MaxTags == 4

\* Most path segments of an address (the method comes on top).
MaxPath == 2

\* Most values of a message enumerated in full.
MaxVals == 2

\* Most complete 4-byte units of a byte stream handed to a decoder.
MaxUnits == 2

\* ------------------------------------------------------------- generalities

Ok(v) == [ok |-> TRUE, val |-> v]
Err(e) == [ok |-> FALSE, err |-> e]

\* A result that is not there yet.
NoResult == [ok |-> FALSE, err |-> <<"none">>]

Min(a, b) == IF a < b THEN a ELSE b

Take(s, n) == SubSeq(s, 1, Min(n, Len(s)))
Drop(s, n) == SubSeq(s, Min(n, Len(s)) + 1, Len(s))

Zeros(n) == [i \in 1..n |-> 0]

SeqsUpTo(S, n) == UNION {[1..k -> S] : k \in 0..n}

RECURSIVE Concat(_)
Concat(ss) == IF ss = <<>> THEN <<>> ELSE Head(ss) \o Concat(Tail(ss))

\* Iterator::next on a vec, slice or array iterator.
IterNext(it) ==
    IF it = <<>> THEN [item |-> <<>>, it |-> <<>>]
    ELSE [item |-> <<Head(it)>>, it |-> Tail(it)]

\* ------------------------------------------------------- batch.rs: Batched

\* Cache::default: the buffer is uninitialised and index 3 keeps it unread.
CacheDefault == [buffer |-> <<>>, index |-> 3]

\* A Cache::new that forgets to reset the index.
CacheNewKeepsIndex(it) ==
    [cache |-> [buffer |-> Take(it, 3) \o Zeros(3 - Min(3, Len(it))), index |-> 3],
     it |-> Drop(it, 3)]

\* Cache::new: pull three bytes, each iter.next().unwrap_or(0).
CacheNew(it) ==
    [cache |-> [buffer |-> Take(it, 3) \o Zeros(3 - Min(3, Len(it))), index |-> 0],
     it |-> Drop(it, 3)]

\* <Cache as Iterator>::next.
CacheNext(c) ==
    IF c.index < 3
    THEN [item |-> <<c.buffer[c.index + 1]>>, cache |-> [c EXCEPT !.index = @ + 1]]
    ELSE [item |-> <<>>, cache |-> c]

\* <Batched as Iterator>::next on the state b = [iter, cache].
BatchedNext(b) ==
    LET cn == CacheNext(b.cache) IN
    IF cn.item # <<>>
    THEN [item |-> cn.item, st |-> [iter |-> b.iter, cache |-> cn.cache]]
    ELSE LET tmp == IterNext(b.iter) IN
         IF tmp.item # <<>>
         THEN LET nc == CacheNew(tmp.it) IN
              [item |-> tmp.item, st |-> [iter |-> nc.it, cache |-> nc.cache]]
         ELSE [item |-> <<>>, st |-> [iter |-> tmp.it, cache |-> b.cache]]

\* Batched::new.
BatchedNew(it) == [iter |-> it, cache |-> CacheDefault]

\* Everything a Batched yields until its first None.
RECURSIVE BatchedDrain(_)
BatchedDrain(b) ==
    LET r == BatchedNext(b) IN
    IF r.item = <<>> THEN <<>> ELSE r.item \o BatchedDrain(r.st)

\* Batch::batch followed by collecting the iterator.
Batch(bytes) == BatchedDrain(BatchedNew(bytes))

\* --------------------------------------------- the padder, call by call

\* Bytes the padder is exercised on.
PadBytes == {0, 1, 255}

InitPad ==
    /\ input \in SeqsUpTo(PadBytes, MaxBytes)
    /\ pc = "iterating"
    /\ op = "Batched::next"
    /\ iter = input
    /\ cache = CacheDefault
    /\ wire = <<>>
    /\ result = NoResult

\* One call of Batched::next.
BatchedStep ==
    /\ pc = "iterating"
    /\ LET r == BatchedNext([iter |-> iter, cache |-> cache]) IN
       /\ iter' = r.st.iter
       /\ cache' = r.st.cache
       /\ IF r.item = <<>>
          THEN pc' = "done" /\ wire' = wire
          ELSE pc' = pc /\ wire' = wire \o r.item
    /\ UNCHANGED <<input, op, result>>

SpecPad == InitPad /\ [][BatchedStep]_vars

\* The padding the wire format asks for after n bytes.
PadLen(n) == (4 - (n % 4)) % 4

\* C1: iterating Batched over s yields the bytes of s in order, then
\* (4 - len(s) mod 4) mod 4 zero bytes and nothing else; while it runs, what
\* it has yielded is a prefix of that.
C1_PaddedOutput ==
    LET want == input \o Zeros(PadLen(Len(input))) IN
    /\ Len(wire) <= Len(want)
    /\ wire = Take(want, Len(wire))
    /\ pc = "done" =>
         /\ wire = want
         /\ Len(wire) % 4 = 0
         /\ Len(wire) - Len(input) \in 0..3
         /\ (Len(input) % 4 = 0 => wire = input)

\* A 5-byte input has been padded with three zeros.
C1_Witness ==
    /\ pc = "done"
    /\ Len(input) = 5
    /\ Len(wire) = 8

\* --------------------------------------------------- tag.rs: Tag and u8

AllTags == {"Integer", "Float", "String", "Blob"}

\* `tag as u8`: the discriminants of the #[repr(u8)] enum.
TagAsU8(t) ==
    CASE t = "Integer" -> 105   \* b'i'
      [] t = "Float"   -> 102   \* b'f'
      [] t = "String"  -> 115   \* b's'
      [] t = "Blob"    -> 98    \* b'b'

\* A try_from that takes 's' for a blob and 'b' for a string.
TagTryFromSwapped(value) ==
    CASE value = 105 -> Ok("Integer")
      [] value = 102 -> Ok("Float")
      [] value = 115 -> Ok("Blob")
      [] value = 98  -> Ok("String")
      [] OTHER -> Err(<<"UnrecognizedTypeTag", value>>)

\* <Tag as TryFrom<u8>>::try_from.
TagTryFrom(value) ==
    CASE value = 105 -> Ok("Integer")
      [] value = 102 -> Ok("Float")
      [] value = 115 -> Ok("String")
      [] value = 98  -> Ok("Blob")
      [] OTHER -> Err(<<"UnrecognizedTypeTag", value>>)

\* ------------------------------------------- decode.rs: the aligned reader

Misaligned == <<"Misaligned">>
Other(e) == <<"Other">> \o e

\* A reader that fills a partial unit with zeros.
Aligned4BDecodePadsPartial(it) ==
    IF Len(it) >= 1
    THEN [res |-> Ok(Take(it \o <<0, 0, 0>>, 4)), it |-> Drop(it, 4)]
    ELSE [res |-> Err(Misaligned), it |-> <<>>]

\* Aligned4B::decode: four iter.next(), the first None giving Misaligned.
\* A decoder returns [res |-> its Result, it |-> the iterator afterwards].
Aligned4BDecode(it) ==
    IF Len(it) >= 4
    THEN [res |-> Ok(Take(it, 4)), it |-> Drop(it, 4)]
    ELSE [res |-> Err(Misaligned), it |-> <<>>]

\* ------------------------------------------------ atomic.rs: construction

\* i32::to_be_bytes: two's complement, most significant byte first.
I32ToBeBytes(v) ==
    <<(v \div 16777216) % 256, (v \div 65536) % 256, (v \div 256) % 256, v % 256>>

\* i32::from_be_bytes.
I32FromBeBytes(b) ==
    (IF b[1] >= 128 THEN b[1] - 256 ELSE b[1]) * 16777216
        + b[2] * 65536 + b[3] * 256 + b[4]

\* str::is_ascii, on a string given as its sequence of code points.
IsAscii(s) == \A i \in 1..Len(s) : s[i] < 128

\* str::contains('\0').
ContainsNull(s) == \E i \in 1..Len(s) : s[i] = 0

\* A conversion that looks for the null byte first.
StringTryFromNullFirst(value) ==
    IF ContainsNull(value) THEN Err(<<"NullInString">>)
    ELSE IF ~IsAscii(value) THEN Err(<<"NonAscii">>)
    ELSE Ok(value)

\* TryFrom<&str> for String.
StringTryFrom(value) ==
    IF ~IsAscii(value) THEN Err(<<"NonAscii">>)
    ELSE IF ContainsNull(value) THEN Err(<<"NullInString">>)
    ELSE Ok(value)

\* TryFrom<alloc::string::String> for DynamicString.
DynamicStringTryFrom(value) ==
    IF ~IsAscii(value) THEN Err(<<"NonAscii">>)
    ELSE IF ContainsNull(value) THEN Err(<<"NullInString">>)
    ELSE Ok(value)

\* ---------------------------------------------- atomic.rs: IntoIterator

\* Integer::into_iter and Float::into_iter: self.0.batch().
IntegerIntoIter(bytes4) == Batch(bytes4)

\* An encoder that leaves the null terminator out.
DynamicStringIntoIterNoNull(s) == Batch(s)

\* DynamicString::into_iter: bytes, once(0), batch.
DynamicStringIntoIter(s) == Batch(s \o <<0>>)

\* An encoder that always writes a whole unit of nulls after the string.
StringIntoIterNullUnit(s) == Batch(s) \o <<0, 0, 0, 0>>

\* String::into_iter: self.0.bytes().chain(once(0)).batch().
StringIntoIter(s) == Batch(s \o <<0>>)

\* DynamicBlob::into_iter: self.0.into_iter().batch().
DynamicBlobIntoIter(b) == Batch(b)

\* Blob::into_iter: self.0.iter().copied().batch().
BlobIntoIter(b) == Batch(b)

\* ---------------------------------------------------- atomic.rs: Decode

\* Integer::decode and Float::decode: one aligned unit.
IntegerDecode(it) == Aligned4BDecode(it)

\* An error that reports byte 0 of the unit whatever byte was at fault.
NonAsciiFirstByte(c) == Err(Other(<<"NonAscii", 0>>))

NonAscii(c) == Err(Other(<<"NonAscii", c>>))
StrNullThenNonNull == Err(Other(<<"NullThenNonNull">>))

\* One turn of the loop of DynamicString::decode on the unit `bytes` with the
\* string `s` read so far: [done, res] when it returns, [done = FALSE, s] when
\* it goes round again.
DynamicStringUnit(bytes, s) ==
    IF bytes[1] = 0 THEN
        IF bytes[2] # 0 \/ bytes[3] # 0 \/ bytes[4] # 0
        THEN [done |-> TRUE, res |-> StrNullThenNonNull]
        ELSE [done |-> TRUE, res |-> Ok(s)]
    ELSE IF bytes[1] >= 128 THEN [done |-> TRUE, res |-> NonAscii(bytes[1])]
    ELSE IF bytes[2] = 0 THEN
        IF bytes[3] # 0 \/ bytes[4] # 0
        THEN [done |-> TRUE, res |-> StrNullThenNonNull]
        ELSE [done |-> TRUE, res |-> Ok(s \o <<bytes[1]>>)]
    ELSE IF bytes[2] >= 128 THEN [done |-> TRUE, res |-> NonAscii(bytes[2])]
    ELSE IF bytes[3] = 0 THEN
        IF bytes[4] # 0
        THEN [done |-> TRUE, res |-> StrNullThenNonNull]
        ELSE [done |-> TRUE, res |-> Ok(s \o <<bytes[1], bytes[2]>>)]
    ELSE IF bytes[3] >= 128 THEN [done |-> TRUE, res |-> NonAscii(bytes[3])]
    ELSE IF bytes[4] = 0
        THEN [done |-> TRUE, res |-> Ok(s \o <<bytes[1], bytes[2], bytes[3]>>)]
    ELSE IF bytes[4] >= 128 THEN [done |-> TRUE, res |-> NonAscii(bytes[4])]
    ELSE [done |-> FALSE, s |-> s \o bytes]

RECURSIVE DynamicStringLoop(_, _)
DynamicStringLoop(it, s) ==
    LET a == Aligned4BDecode(it) IN
    IF ~a.res.ok THEN [res |-> a.res, it |-> a.it]
    ELSE LET u == DynamicStringUnit(a.res.val, s) IN
         IF u.done THEN [res |-> u.res, it |-> a.it]
         ELSE DynamicStringLoop(a.it, u.s)

\* A decoder that drains the iterator once it has its string.
DynamicStringDecodeDrains(it) == [res |-> DynamicStringLoop(it, <<>>).res, it |-> <<>>]

\* DynamicString::decode.
DynamicStringDecode(it) == DynamicStringLoop(it, <<>>)

\* The i32 values an unwrap_unchecked of an Err may hand back (undefined
\* behaviour: the payload slot is never written).
UbI32 == {-1, 0, 8}

\* The `for _ in 0..chunks` loop of DynamicBlob::decode.
RECURSIVE BlobChunks(_, _, _)
BlobChunks(it, chunks, v) ==
    IF chunks = 0 THEN [res |-> Ok(v), it |-> it]
    ELSE LET a == Aligned4BDecode(it) IN
         IF ~a.res.ok THEN [res |-> a.res, it |-> a.it]
         ELSE BlobChunks(a.it, chunks - 1, v \o a.res.val)

\* DynamicBlob::decode; `ub` is what the unchecked unwrap yields when
\* Integer::decode has failed.
DynamicBlobDecode(it, ub) ==
    LET d == IntegerDecode(it)
        size == IF d.res.ok THEN I32FromBeBytes(d.res.val) ELSE ub
    IN  IF size < 0 THEN [res |-> Err(Other(<<"NegativeSize">>)), it |-> d.it]
        ELSE BlobChunks(d.it, size \div 8, <<>>)

\* ------------------------------------------------------ dynamic.rs: Tags

RECURSIVE MapTagAsU8(_)
MapTagAsU8(ts) ==
    IF ts = <<>> THEN <<>> ELSE <<TagAsU8(Head(ts))>> \o MapTagAsU8(Tail(ts))

\* An encoder that leaves the leading comma out.
TagsIntoIterNoComma(ts) == Batch(MapTagAsU8(ts) \o <<0>>)

\* Tags::into_iter: once(','), the tags as u8, once('\0'), batch.
TagsIntoIter(ts) == Batch(<<44>> \o MapTagAsU8(ts) \o <<0>>)

TagNullThenNonNull == Err(Other(<<"NullThenNonNull">>))

\* A conversion with a catch-all arm: any other byte is taken for a blob tag.
TagOfCatchAll(b) ==
    LET r == TagTryFrom(b) IN IF r.ok THEN r ELSE Ok("Blob")

\* first.N.try_into().map_err(Misaligned4B::Other), for the `?` after it.
TagOf(b) ==
    LET r == TagTryFrom(b) IN IF r.ok THEN r ELSE Err(Other(r.err))

\* The block of Tags::decode that reads the first unit.
TagsFirstUnit(first) ==
    IF first[1] # 44
        THEN [done |-> TRUE, res |-> Err(Other(<<"MissingComma", first[1]>>))]
    ELSE IF first[2] = 0 THEN
        IF first[3] # 0 \/ first[4] # 0
        THEN [done |-> TRUE, res |-> TagNullThenNonNull]
        ELSE [done |-> TRUE, res |-> Ok(<<>>)]
    ELSE IF ~TagOf(first[2]).ok THEN [done |-> TRUE, res |-> TagOf(first[2])]
    ELSE IF first[3] = 0 THEN
        IF first[4] # 0
        THEN [done |-> TRUE, res |-> TagNullThenNonNull]
        ELSE [done |-> TRUE, res |-> Ok(<<TagOf(first[2]).val>>)]
    ELSE IF ~TagOf(first[3]).ok THEN [done |-> TRUE, res |-> TagOf(first[3])]
    ELSE IF first[4] = 0
        THEN [done |-> TRUE,
              res |-> Ok(<<TagOf(first[2]).val, TagOf(first[3]).val>>)]
    ELSE IF ~TagOf(first[4]).ok THEN [done |-> TRUE, res |-> TagOf(first[4])]
    ELSE [done |-> FALSE,
          v |-> <<TagOf(first[2]).val, TagOf(first[3]).val, TagOf(first[4]).val>>]

\* One turn of the loop of Tags::decode.
TagsUnit(bytes, v) ==
    IF bytes[1] = 0 THEN
        IF bytes[2] # 0 \/ bytes[3] # 0 \/ bytes[4] # 0
        THEN [done |-> TRUE, res |-> TagNullThenNonNull]
        ELSE [done |-> TRUE, res |-> Ok(v)]
    ELSE IF ~TagOf(bytes[1]).ok THEN [done |-> TRUE, res |-> TagOf(bytes[1])]
    ELSE IF bytes[2] = 0 THEN
        IF bytes[3] # 0 \/ bytes[4] # 0
        THEN [done |-> TRUE, res |-> TagNullThenNonNull]
        ELSE [done |-> TRUE, res |-> Ok(v \o <<TagOf(bytes[1]).val>>)]
    ELSE IF ~TagOf(bytes[2]).ok THEN [done |-> TRUE, res |-> TagOf(bytes[2])]
    ELSE IF bytes[3] = 0 THEN
        IF bytes[4] # 0
        THEN [done |-> TRUE, res |-> TagNullThenNonNull]
        ELSE [done |-> TRUE,
              res |-> Ok(v \o <<TagOf(bytes[1]).val, TagOf(bytes[2]).val>>)]
    ELSE IF ~TagOf(bytes[3]).ok THEN [done |-> TRUE, res |-> TagOf(bytes[3])]
    ELSE IF bytes[4] = 0
        THEN [done |-> TRUE,
              res |-> Ok(v \o <<TagOf(bytes[1]).val, TagOf(bytes[2]).val,
                                TagOf(bytes[3]).val>>)]
    ELSE IF ~TagOf(bytes[4]).ok THEN [done |-> TRUE, res |-> TagOf(bytes[4])]
    ELSE [done |-> FALSE,
          v |-> v \o <<TagOf(bytes[1]).val, TagOf(bytes[2]).val,
                       TagOf(bytes[3]).val, TagOf(bytes[4]).val>>]

RECURSIVE TagsLoop(_, _)
TagsLoop(it, v) ==
    LET a == Aligned4BDecode(it) IN
    IF ~a.res.ok THEN [res |-> a.res, it |-> a.it]
    ELSE LET u == TagsUnit(a.res.val, v) IN
         IF u.done THEN [res |-> u.res, it |-> a.it]
         ELSE TagsLoop(a.it, u.v)

\* Tags::decode.
TagsDecode(it) ==
    LET a == Aligned4BDecode(it) IN
    IF ~a.res.ok THEN [res |-> a.res, it |-> a.it]
    ELSE LET u == TagsFirstUnit(a.res.val) IN
         IF u.done THEN [res |-> u.res, it |-> a.it]
         ELSE TagsLoop(a.it, u.v)

\* --------------------------------------------------- dynamic.rs: Dynamic

\* What an unwrap_unchecked of an Err leaves in the value it was to return:
\* undefined behaviour, any of these payloads.
UbBytes == {<<>>, <<255, 255, 255, 255>>}

\* The decoder Dynamic::decode calls for a tag.
DataDecode(tag, it, ubsize) ==
    CASE tag = "Integer" -> IntegerDecode(it)
      [] tag = "Float"   -> Aligned4BDecode(it)
      [] tag = "String"  -> DynamicStringDecode(it)
      [] tag = "Blob"    -> DynamicBlobDecode(it, ubsize)

\* The loop of Dynamic::decode over the tags: each value decoded and
\* unwrapped unchecked. ub tells whether an unwrap_unchecked met an Err, in
\* this loop or in DynamicBlob::decode.
RECURSIVE DynamicValues(_, _, _, _, _, _)
DynamicValues(types, it, v, ub, ubsize, ubval) ==
    IF types = <<>> THEN [res |-> Ok(v), it |-> it, ub |-> ub]
    ELSE LET tag == Head(types)
             d == DataDecode(tag, it, ubsize)
             hit == ~d.res.ok \/ (tag = "Blob" /\ ~IntegerDecode(it).res.ok)
             val == IF d.res.ok THEN d.res.val ELSE ubval
         IN  DynamicValues(Tail(types), d.it, Append(v, [tag |-> tag, data |-> val]),
                           ub \/ hit, ubsize, ubval)

\* Dynamic::decode.
DynamicDecode(it, ubsize, ubval) ==
    LET t == TagsDecode(it) IN
    IF ~t.res.ok
    THEN IF t.res.err = Misaligned
         THEN [res |-> Err(Misaligned), it |-> t.it, ub |-> FALSE]
         ELSE [res |-> Err(Other(<<"TypeTagErr">> \o Tail(t.res.err))),
               it |-> t.it, ub |-> FALSE]
    ELSE DynamicValues(t.res.val, t.it, <<>>, FALSE, ubsize, ubval)

\* Whether the decode path of a decoder on these bytes comes to an
\* unwrap_unchecked of an Err: in DynamicBlob::decode when Integer::decode
\* fails, in Dynamic::decode when a value's decoder fails. (Address::decode
\* unwraps the first two bytes of a unit it has, and pops a list that holds
\* at least its first segment.)
UnwrapsErr(name, bytes) ==
    CASE name = "DynamicBlob::decode" -> ~IntegerDecode(bytes).res.ok
      [] name = "Dynamic::decode" -> DynamicDecode(bytes, 0, <<>>).ub
      [] OTHER -> FALSE

\* ------------------------------------------- address.rs: building an address

\* The characters the match of valid_address_character names:
\* ' ' # * , / ? [ ] { }
Blacklisted == {32, 35, 42, 44, 47, 63, 91, 93, 123, 125}

\* A check that takes DEL (127) for a printable character.
ValidAddressCharacterWithDel(c) ==
    IF c \in Blacklisted THEN FALSE
    ELSE IF c >= 32 /\ c <= 127 THEN TRUE
    ELSE FALSE

\* valid_address_character.
ValidAddressCharacter(c) ==
    IF c \in Blacklisted THEN FALSE
    ELSE IF c >= 32 /\ c <= 126 THEN TRUE
    ELSE FALSE

\* The `for c in s` loops of into_address: the first character that is not
\* valid, as Some(InvalidCharacter(c)), or None.
RECURSIVE ScanChars(_)
ScanChars(s) ==
    IF s = <<>> THEN <<>>
    ELSE IF ~ValidAddressCharacter(Head(s))
         THEN <<<<"InvalidCharacter", Head(s)>>>>
         ELSE ScanChars(Tail(s))

\* A scan that lets an empty segment through.
ScanSegmentAllowsEmpty(s) == ScanChars(s)

\* What into_address does with one segment (and with the method): s.next()
\* must be a valid character, then every other character must be.
ScanSegment(s) ==
    IF s = <<>> THEN <<<<"Empty">>>>
    ELSE ScanChars(s)

\* The loop of into_address over the path segments, in order.
RECURSIVE ScanPath(_)
ScanPath(path) ==
    IF path = <<>> THEN <<>>
    ELSE LET e == ScanSegment(Head(path)) IN
         IF e # <<>> THEN e ELSE ScanPath(Tail(path))

\* An Address value: the tuple struct Address(path, method).
Address(path, method) == [path |-> path, method |-> method]

\* IntoAddress::into_address.
IntoAddress(path, method) ==
    LET e == ScanPath(path) IN
    IF e # <<>> THEN Err(e[1])
    ELSE LET m == ScanSegment(method) IN
         IF m # <<>> THEN Err(m[1])
         ELSE Ok(Address(path, method))

\* ------------------------------------------- address.rs: iterating an address

\* Address::into_iter, before .batch(): the Iter over path segments chained
\* with the method.
AddrIterNew(a) == [iter |-> a.path \o <<a.method>>, bytes |-> <<>>, slash |-> TRUE]

\* An Iter::next that puts no slash in front of a segment.
RECURSIVE AddrIterNextNoSlash(_)
AddrIterNextNoSlash(st) ==
    IF st.slash THEN
        IF st.iter = <<>>
        THEN [item |-> <<0>>, st |-> [st EXCEPT !.slash = FALSE, !.bytes = <<>>]]
        ELSE AddrIterNextNoSlash(
               [iter |-> Tail(st.iter), bytes |-> <<Head(st.iter)>>, slash |-> FALSE])
    ELSE IF st.bytes = <<>> THEN [item |-> <<>>, st |-> st]
    ELSE IF st.bytes[1] # <<>>
         THEN [item |-> <<Head(st.bytes[1])>>,
               st |-> [st EXCEPT !.bytes = <<Tail(st.bytes[1])>>]]
         ELSE AddrIterNextNoSlash([st EXCEPT !.slash = TRUE])

\* An Iter::next that leaves `slash` set when the segments have run out.
RECURSIVE AddrIterNextKeepsSlash(_)
AddrIterNextKeepsSlash(st) ==
    IF st.slash THEN
        IF st.iter = <<>>
        THEN [item |-> <<0>>, st |-> [st EXCEPT !.bytes = <<>>]]
        ELSE [item |-> <<47>>,
              st |-> [iter |-> Tail(st.iter), bytes |-> <<Head(st.iter)>>,
                      slash |-> FALSE]]
    ELSE IF st.bytes = <<>> THEN [item |-> <<>>, st |-> st]
    ELSE IF st.bytes[1] # <<>>
         THEN [item |-> <<Head(st.bytes[1])>>,
               st |-> [st EXCEPT !.bytes = <<Tail(st.bytes[1])>>]]
         ELSE AddrIterNextKeepsSlash([st EXCEPT !.slash = TRUE])

\* <Iter as Iterator>::next; `bytes` is None (<<>>) or Some(the rest of the
\* current segment).
RECURSIVE AddrIterNext(_)
AddrIterNext(st) ==
    IF st.slash THEN
        IF st.iter = <<>>
        THEN [item |-> <<0>>, st |-> [st EXCEPT !.slash = FALSE, !.bytes = <<>>]]
        ELSE [item |-> <<47>>,
              st |-> [iter |-> Tail(st.iter), bytes |-> <<Head(st.iter)>>,
                      slash |-> FALSE]]
    ELSE IF st.bytes = <<>> THEN [item |-> <<>>, st |-> st]
    ELSE IF st.bytes[1] # <<>>
         THEN [item |-> <<Head(st.bytes[1])>>,
               st |-> [st EXCEPT !.bytes = <<Tail(st.bytes[1])>>]]
         ELSE AddrIterNext([st EXCEPT !.slash = TRUE])

\* Everything an Iter yields until its first None.
RECURSIVE AddrIterDrain(_)
AddrIterDrain(st) ==
    LET r == AddrIterNext(st) IN
    IF r.item = <<>> THEN <<>> ELSE r.item \o AddrIterDrain(r.st)

\* Address::into_iter, collected.
AddressIntoIter(a) == Batch(AddrIterDrain(AddrIterNew(a)))

\* ------------------------------------------- address.rs: decoding an address

\* ' ' # * , ? [ ] { }: the pattern characters parse_address_char names.
\* A pattern set that has lost '#'.
PatternCharsWithoutHash == {32, 42, 44, 63, 91, 93, 123, 125}

PatternChars == {32, 35, 42, 44, 63, 91, 93, 123, 125}

AddrErr(e) == <<Err(Other(e))>>

\* A loop over the rest of the unit that accepts any byte.
AllNullUnchecked(bytes) == \A i \in 1..Len(bytes) : bytes[i] \in 0..255

\* Whether every byte left in the unit is null (the `for c in bytes` loop).
AllNull(bytes) == \A i \in 1..Len(bytes) : bytes[i] = 0

\* parse_address_char: [ret, bytes, post_slash, v], where ret is None (<<>>)
\* or Some(Ok(head)) or Some(Err(e)), and bytes is what is left of the unit.
ParseAddressChar(byte, bytes, post_slash, v) ==
    IF byte = 0 THEN
        IF post_slash
        THEN [ret |-> AddrErr(<<"NoMethod">>), bytes |-> bytes,
              post_slash |-> post_slash, v |-> v]
        ELSE IF ~AllNull(bytes)
        THEN [ret |-> AddrErr(<<"NullThenNonNull">>), bytes |-> <<>>,
              post_slash |-> post_slash, v |-> v]
        ELSE [ret |-> <<Ok(v[Len(v)])>>, bytes |-> <<>>,
              post_slash |-> post_slash, v |-> SubSeq(v, 1, Len(v) - 1)]
    ELSE IF byte = 47 THEN
        IF post_slash
        THEN [ret |-> AddrErr(<<"EmptySegment">>), bytes |-> bytes,
              post_slash |-> post_slash, v |-> v]
        ELSE [ret |-> <<>>, bytes |-> bytes, post_slash |-> post_slash,
              v |-> Append(v, <<>>)]
    ELSE IF byte \in PatternChars
        THEN [ret |-> AddrErr(<<"PatternsNotYetImplemented", byte>>), bytes |-> bytes,
              post_slash |-> post_slash, v |-> v]
    ELSE IF byte <= 31 \/ byte >= 127
        THEN [ret |-> AddrErr(<<"NotPrintableAscii", byte>>), bytes |-> bytes,
              post_slash |-> post_slash, v |-> v]
    ELSE [ret |-> <<>>, bytes |-> bytes, post_slash |-> FALSE,
          v |-> [v EXCEPT ![Len(v)] = Append(@, byte)]]

\* parse_address_chars: parse_address_char on each byte left in the unit.
RECURSIVE ParseAddressChars(_, _, _)
ParseAddressChars(bytes, post_slash, v) ==
    IF bytes = <<>>
    THEN [ret |-> <<>>, bytes |-> <<>>, post_slash |-> post_slash, v |-> v]
    ELSE LET r == ParseAddressChar(Head(bytes), Tail(bytes), post_slash, v) IN
         IF r.ret # <<>> THEN r
         ELSE ParseAddressChars(r.bytes, r.post_slash, r.v)

\* The three identical matches of Address::decode on a Some(..).
AddrReturn(r) ==
    IF r.ret[1].ok THEN Ok(Address(r.v, r.ret[1].val)) ELSE r.ret[1]

\* The `loop` of Address::decode.
RECURSIVE AddressDecodeLoop(_, _, _)
AddressDecodeLoop(it, post_slash, v) ==
    LET a == Aligned4BDecode(it) IN
    IF ~a.res.ok THEN [res |-> a.res, it |-> a.it]
    ELSE LET r == ParseAddressChars(a.res.val, post_slash, v) IN
         IF r.ret # <<>> THEN [res |-> AddrReturn(r), it |-> a.it]
         ELSE AddressDecodeLoop(a.it, r.post_slash, r.v)

\* Address::decode.
AddressDecode(it) ==
    LET a == Aligned4BDecode(it) IN
    IF ~a.res.ok THEN [res |-> a.res, it |-> a.it]
    ELSE LET first == a.res.val IN
         IF first[1] # 47
         THEN [res |-> Err(Other(<<"LeadingSlash", first[1]>>)), it |-> a.it]
         ELSE LET r1 == ParseAddressChar(first[2], <<first[3], first[4]>>,
                                         TRUE, <<<<>>>>) IN
              IF r1.ret # <<>> THEN [res |-> AddrReturn(r1), it |-> a.it]
              ELSE LET r2 == ParseAddressChars(r1.bytes, r1.post_slash, r1.v) IN
                   IF r2.ret # <<>> THEN [res |-> AddrReturn(r2), it |-> a.it]
                   ELSE AddressDecodeLoop(a.it, r2.post_slash, r2.v)

\* ------------------------------ atomic.rs, tuple.rs, into_osc.rs, message.rs

\* A Rust value is an i32 [tag, i], an f32 [tag, f] given by its bit pattern
\* (what f32::to_bits returns, as an i32), a string [tag, s] given by its code
\* points, or a byte slice [tag, b]. An atomic OSC value is [tag, data]: Integer([u8; 4]),
\* Float([u8; 4]), String(&str), Blob(&[u8]).

\* IntoAtomic::into_atomic: <AsAtomic as TryFrom<Self>>::try_from.
IntoAtomic(value) ==
    CASE value.tag = "Integer" -> Ok([tag |-> "Integer", data |-> I32ToBeBytes(value.i)])
      [] value.tag = "Float"   -> Ok([tag |-> "Float", data |-> I32ToBeBytes(value.f)])
      [] value.tag = "String"  ->
            LET r == StringTryFrom(value.s) IN
            IF r.ok THEN Ok([tag |-> "String", data |-> r.val]) ELSE r
      [] value.tag = "Blob"    -> Ok([tag |-> "Blob", data |-> value.b])

\* Atomic::into_iter, collected.
AtomicIntoIter(a) ==
    CASE a.tag = "Integer" -> IntegerIntoIter(a.data)
      [] a.tag = "Float"   -> IntegerIntoIter(a.data)
      [] a.tag = "String"  -> StringIntoIter(a.data)
      [] a.tag = "Blob"    -> BlobIntoIter(a.data)

\* A type_tag that lists the tags of the elements last to first.
TupleTypeTagReversed(data) == [i \in 1..Len(data) |-> data[Len(data) + 1 - i].tag]

\* Tuple::type_tag: [A.type_tag(), B.type_tag(), ...].
TupleTypeTag(data) == [i \in 1..Len(data) |-> data[i].tag]

\* Tuple::chain: self.0.into_iter().chain(self.1).chain(self.2)...
RECURSIVE TupleChain(_)
TupleChain(data) ==
    IF data = <<>> THEN <<>>
    ELSE AtomicIntoIter(Head(data)) \o TupleChain(Tail(data))

\* Message::new.
MessageNew(address, data) == [address |-> address, data |-> data]

\* An iterator whose tag string is not batched: no padding after its null.
MessageIntoIterTagsUnpadded(m) ==
    AddressIntoIter(m.address)
        \o (<<44>> \o MapTagAsU8(TupleTypeTag(m.data)) \o <<0>>)
        \o TupleChain(m.data)

\* An iterator that yields the tag string ahead of the address.
MessageIntoIterTagsFirst(m) ==
    Batch(<<44>> \o MapTagAsU8(TupleTypeTag(m.data)) \o <<0>>)
        \o AddressIntoIter(m.address)
        \o TupleChain(m.data)

\* Message::into_iter, collected: the address, the batched tag string, the
\* chained data.
MessageIntoIter(m) ==
    AddressIntoIter(m.address)
        \o Batch(<<44>> \o MapTagAsU8(TupleTypeTag(m.data)) \o <<0>>)
        \o TupleChain(m.data)

\* The tuple of into_osc: each element's into_atomic, the first Err leaving
\* through `?` as AddressErr::StringErr.
RECURSIVE IntoAtomics(_)
IntoAtomics(values) ==
    IF values = <<>> THEN Ok(<<>>)
    ELSE LET a == IntoAtomic(Head(values)) IN
         IF ~a.ok THEN Err(<<"StringErr">> \o a.err)
         ELSE LET r == IntoAtomics(Tail(values)) IN
              IF ~r.ok THEN r ELSE Ok(<<a.val>> \o r.val)

\* An into_osc that converts the values before it looks at the address.
IntoOscValuesFirst(values, path, method) ==
    LET d == IntoAtomics(values) IN
    IF ~d.ok THEN d
    ELSE LET a == IntoAddress(path, method) IN
         IF ~a.ok THEN a ELSE Ok(MessageNew(a.val, d.val))

\* IntoOsc::into_osc for a tuple (and for () and a single value).
IntoOsc(values, path, method) ==
    LET a == IntoAddress(path, method) IN
    IF ~a.ok THEN a
    ELSE LET d == IntoAtomics(values) IN
         IF ~d.ok THEN d ELSE Ok(MessageNew(a.val, d.val))

\* One value decoder per tag on the one iterator, in tag order, each Err
\* returned as it is met.
RECURSIVE ValuesDecode(_, _, _, _)
ValuesDecode(types, it, v, ub) ==
    IF types = <<>> THEN [res |-> Ok(v), it |-> it]
    ELSE LET d == DataDecode(Head(types), it, ub) IN
         IF ~d.res.ok THEN d
         ELSE ValuesDecode(Tail(types), d.it,
                           Append(v, [tag |-> Head(types), data |-> d.res.val]), ub)

\* Decoding a message from one iterator: Address::decode, then Tags::decode,
\* then the values.
MessageDecodeBy(it, ub) ==
    LET a == AddressDecode(it) IN
    IF ~a.res.ok THEN a
    ELSE LET t == TagsDecode(a.it) IN
         IF ~t.res.ok THEN t
         ELSE LET d == ValuesDecode(t.res.val, t.it, <<>>, ub) IN
              IF ~d.res.ok THEN d
              ELSE [res |-> Ok([address |-> a.res.val, tags |-> t.res.val,
                                values |-> d.res.val]),
                    it |-> d.it]

\* ------------------------------------------- values put through the codec

\* Code points of the Rust strings: NUL, 'a', DEL and a non-ASCII one.
StrChars == {0, 97, 127, 233}

\* Tag sequences longer than MaxTags: they fill one, two and three units.
LongTags ==
    { [i \in 1..7 |-> "Integer"],
      <<"Integer", "Float", "String", "Blob", "Blob", "String", "Float">>,
      [i \in 1..8 |-> "String"],
      [i \in 1..11 |-> "Blob"] }

\* Segments: "", a, ab, abc, !~, a/, ' ', a DEL, US, #*
SegSample ==
    { <<>>, <<97>>, <<97, 98>>, <<97, 98, 99>>, <<33, 126>>,
      <<97, 47>>, <<32>>, <<97, 127>>, <<31>>, <<35, 42>> }

\* "oscillator", "4", "frequency" and "foo" of the examples in test.rs.
Oscillator == <<111, 115, 99, 105, 108, 108, 97, 116, 111, 114>>
Four == <<52>>
Frequency == <<102, 114, 101, 113, 117, 101, 110, 99, 121>>
Foo == <<102, 111, 111>>

AddressInputs ==
    {[kind |-> "address", path |-> p, method |-> m] :
        p \in SeqsUpTo(SegSample, MaxPath), m \in SegSample}
    \cup {[kind |-> "address", path |-> <<>>, method |-> <<b>>] : b \in 0..255}
    \cup {[kind |-> "address", path |-> <<Oscillator, Four>>, method |-> Frequency],
          [kind |-> "address", path |-> <<>>, method |-> Foo]}

\* "hello" of message_foo.
Hello == <<104, 101, 108, 108, 111>>

\* The Rust values messages are built from: 1000, -1, 440.0 (0x43DC0000),
\* "", "abc", "hello", a string with a null, a non-ASCII string, two slices.
ValueSample ==
    { [tag |-> "Integer", i |-> 1000], [tag |-> "Integer", i |-> -1],
      [tag |-> "Float", f |-> 1138491392],
      [tag |-> "String", s |-> <<>>], [tag |-> "String", s |-> <<97, 98, 99>>],
      [tag |-> "String", s |-> Hello],
      [tag |-> "String", s |-> <<97, 0>>], [tag |-> "String", s |-> <<233>>],
      [tag |-> "Blob", b |-> <<>>], [tag |-> "Blob", b |-> <<1, 2, 3, 4, 5>>] }

\* (440.) into_osc(["oscillator", "4"], "frequency") of test.rs.
MessageOscillator ==
    [kind |-> "message", path |-> <<Oscillator, Four>>, method |-> Frequency,
     values |-> <<[tag |-> "Float", f |-> 1138491392]>>]

\* (1000, -1, "hello", 1.234, 5.678).into_osc([], "foo") of test.rs; the
\* floats are 0x3F9DF3B6 and 0x40B5B22D.
MessageFoo ==
    [kind |-> "message", path |-> <<>>, method |-> Foo,
     values |-> <<[tag |-> "Integer", i |-> 1000], [tag |-> "Integer", i |-> -1],
                  [tag |-> "String", s |-> Hello],
                  [tag |-> "Float", f |-> 1067316150],
                  [tag |-> "Float", f |-> 1085649453]>>]

\* The tuple of type_tag_iisfff of test.rs: (0, 0, "", 0.0, 0.0, 0.0).
TupleIisfff ==
    [kind |-> "message", path |-> <<>>, method |-> Foo,
     values |-> <<[tag |-> "Integer", i |-> 0], [tag |-> "Integer", i |-> 0],
                  [tag |-> "String", s |-> <<>>],
                  [tag |-> "Float", f |-> 0], [tag |-> "Float", f |-> 0],
                  [tag |-> "Float", f |-> 0]>>]

\* The tuple of type_tag_ibb of test.rs: (0, &[], &[]).
TupleIbb ==
    [kind |-> "message", path |-> <<>>, method |-> Foo,
     values |-> <<[tag |-> "Integer", i |-> 0], [tag |-> "Blob", b |-> <<>>],
                  [tag |-> "Blob", b |-> <<>>]>>]

MessageInputs ==
    {[kind |-> "message", path |-> a[1], method |-> a[2], values |-> vs] :
        a \in {<<<<>>, Foo>>, <<<<<<97>>>>, <<97, 98>>>>,
               <<<<Oscillator, Four>>, Frequency>>, <<<<>>, <<>>>>,
               <<<<<<32>>>>, <<97>>>>},
        vs \in SeqsUpTo(ValueSample, MaxVals)}
    \cup {MessageOscillator, MessageFoo, TupleIisfff, TupleIbb}

\* "osc" and "data" of string_osc and string_data.
OscStr == <<111, 115, 99>>
DataStr == <<100, 97, 116, 97>>

\* The strings converted and encoded: all of StrChars up to MaxStr, and the
\* two of the tests.
StringInputs == SeqsUpTo(StrChars, MaxStr) \cup {OscStr, DataStr}

CodecInputs ==
    {[kind |-> "byte", byte |-> b] : b \in 0..255}
    \cup {[kind |-> "tag", tag |-> t] : t \in AllTags}
    \cup {[kind |-> "string", s |-> s] : s \in StringInputs}
    \cup {[kind |-> "str", s |-> s] : s \in StringInputs}
    \cup {[kind |-> "blob", b |-> b] : b \in SeqsUpTo(PadBytes, MaxBytes)}
    \cup {[kind |-> "slice", b |-> b] : b \in SeqsUpTo(PadBytes, MaxBytes)}
    \cup {[kind |-> "tags", tags |-> ts] : ts \in SeqsUpTo(AllTags, MaxTags) \cup LongTags}
    \cup AddressInputs
    \cup MessageInputs

Init ==
    /\ input \in CodecInputs
    /\ pc = "new"
    /\ op = "none"
    /\ iter = <<>>
    /\ cache = CacheDefault
    /\ wire = <<>>
    /\ result = NoResult

\* Tag::try_from(byte), on a byte given as such or on the byte a tag was
\* cast to.
TagTryFromByte ==
    /\ \/ input.kind = "byte" /\ pc = "new"
       \/ input.kind = "tag" /\ pc = "encoded"
    /\ result' = TagTryFrom(IF input.kind = "byte" THEN input.byte ELSE wire[1])
    /\ pc' = "decoded"
    /\ op' = "Tag::try_from"
    /\ UNCHANGED <<input, iter, cache, wire>>

\* `tag as u8`.
TagCast ==
    /\ input.kind = "tag" /\ pc = "new"
    /\ wire' = <<TagAsU8(input.tag)>>
    /\ pc' = "encoded"
    /\ op' = "Tag as u8"
    /\ UNCHANGED <<input, iter, cache, result>>

\* into_atomic on a Rust string: DynamicString::try_from.
StringIntoAtomic ==
    /\ input.kind = "string" /\ pc = "new"
    /\ result' = DynamicStringTryFrom(input.s)
    /\ pc' = IF result'.ok THEN "built" ELSE "rejected"
    /\ op' = "DynamicString::try_from"
    /\ UNCHANGED <<input, iter, cache, wire>>

\* Collecting DynamicString::into_iter.
StringEncode ==
    /\ input.kind = "string" /\ pc = "built"
    /\ wire' = DynamicStringIntoIter(result.val)
    /\ pc' = "encoded"
    /\ op' = "DynamicString::into_iter"
    /\ UNCHANGED <<input, iter, cache, result>>

\* DynamicString::decode on the encoded bytes.
StringDecode ==
    /\ input.kind = "string" /\ pc = "encoded"
    /\ LET d == DynamicStringDecode(wire) IN result' = d.res /\ iter' = d.it
    /\ pc' = "decoded"
    /\ op' = "DynamicString::decode"
    /\ UNCHANGED <<input, cache, wire>>

\* s.into_atomic() on a &str: String::try_from.
StrIntoAtomic ==
    /\ input.kind = "str" /\ pc = "new"
    /\ result' = StringTryFrom(input.s)
    /\ pc' = IF result'.ok THEN "built" ELSE "rejected"
    /\ op' = "String::try_from"
    /\ UNCHANGED <<input, iter, cache, wire>>

\* Collecting String::into_iter.
StrEncode ==
    /\ input.kind = "str" /\ pc = "built"
    /\ wire' = StringIntoIter(result.val)
    /\ pc' = "encoded"
    /\ op' = "String::into_iter"
    /\ UNCHANGED <<input, iter, cache, result>>

\* Collecting Blob::into_iter (Blob::try_from cannot fail).
SliceEncode ==
    /\ input.kind = "slice" /\ pc = "new"
    /\ wire' = BlobIntoIter(input.b)
    /\ pc' = "encoded"
    /\ op' = "Blob::into_iter"
    /\ UNCHANGED <<input, iter, cache, result>>

\* Collecting DynamicBlob::into_iter (DynamicBlob::try_from cannot fail).
BlobEncode ==
    /\ input.kind = "blob" /\ pc = "new"
    /\ wire' = DynamicBlobIntoIter(input.b)
    /\ pc' = "encoded"
    /\ op' = "DynamicBlob::into_iter"
    /\ UNCHANGED <<input, iter, cache, result>>

\* DynamicBlob::decode on the encoded bytes.
BlobDecode ==
    /\ input.kind = "blob" /\ pc = "encoded"
    /\ \E ub \in (IF Len(wire) < 4 THEN UbI32 ELSE {0}) :
         LET d == DynamicBlobDecode(wire, ub) IN result' = d.res /\ iter' = d.it
    /\ pc' = "decoded"
    /\ op' = "DynamicBlob::decode"
    /\ UNCHANGED <<input, cache, wire>>

\* Collecting Tags::into_iter.
TagsEncode ==
    /\ input.kind = "tags" /\ pc = "new"
    /\ wire' = TagsIntoIter(input.tags)
    /\ pc' = "encoded"
    /\ op' = "Tags::into_iter"
    /\ UNCHANGED <<input, iter, cache, result>>

\* Tags::decode on the encoded bytes.
TagsDecodeStep ==
    /\ input.kind = "tags" /\ pc = "encoded"
    /\ LET d == TagsDecode(wire) IN result' = d.res /\ iter' = d.it
    /\ pc' = "decoded"
    /\ op' = "Tags::decode"
    /\ UNCHANGED <<input, cache, wire>>

\* path.into_address(method).
AddressBuild ==
    /\ input.kind = "address" /\ pc = "new"
    /\ result' = IntoAddress(input.path, input.method)
    /\ pc' = IF result'.ok THEN "built" ELSE "rejected"
    /\ op' = "into_address"
    /\ UNCHANGED <<input, iter, cache, wire>>

\* Collecting Address::into_iter.
AddressEncode ==
    /\ input.kind = "address" /\ pc = "built"
    /\ wire' = AddressIntoIter(result.val)
    /\ pc' = "encoded"
    /\ op' = "Address::into_iter"
    /\ UNCHANGED <<input, iter, cache, result>>

\* Address::decode on the encoded bytes.
AddressDecodeStep ==
    /\ input.kind = "address" /\ pc = "encoded"
    /\ LET d == AddressDecode(wire) IN result' = d.res /\ iter' = d.it
    /\ pc' = "decoded"
    /\ op' = "Address::decode"
    /\ UNCHANGED <<input, cache, wire>>

\* values.into_osc(path, method).
MessageIntoOsc ==
    /\ input.kind = "message" /\ pc = "new"
    /\ result' = IntoOsc(input.values, input.path, input.method)
    /\ pc' = IF result'.ok THEN "built" ELSE "rejected"
    /\ op' = "into_osc"
    /\ UNCHANGED <<input, iter, cache, wire>>

\* Collecting Message::into_iter.
MessageEncode ==
    /\ input.kind = "message" /\ pc = "built"
    /\ wire' = MessageIntoIter(result.val)
    /\ pc' = "encoded"
    /\ op' = "Message::into_iter"
    /\ UNCHANGED <<input, iter, cache, result>>

\* The bytes of a message decoded field by field from one iterator; a blob
\* that ends before its length is undefined behaviour, the size any of UbI32.
MessageDecode ==
    /\ input.kind = "message" /\ pc = "encoded"
    /\ \E ub \in UbI32 :
         LET d == MessageDecodeBy(wire, ub) IN result' = d.res /\ iter' = d.it
    /\ pc' = "decoded"
    /\ op' = "Message decode"
    /\ UNCHANGED <<input, cache, wire>>

\* Collecting data.type_tag().map(|tag| tag as u8) of the tuple a message
\* was built with.
TupleTags ==
    /\ input.kind = "message" /\ pc = "built"
    /\ wire' = MapTagAsU8(TupleTypeTag(result.val.data))
    /\ pc' = "tagged"
    /\ op' = "Tuple::type_tag"
    /\ UNCHANGED <<input, iter, cache, result>>

\* Collecting data.chain() of the tuple a message was built with.
TupleChained ==
    /\ input.kind = "message" /\ pc = "built"
    /\ wire' = TupleChain(result.val.data)
    /\ pc' = "chained"
    /\ op' = "Tuple::chain"
    /\ UNCHANGED <<input, iter, cache, result>>

Next ==
    \/ TagTryFromByte
    \/ TagCast
    \/ StringIntoAtomic
    \/ StringEncode
    \/ StringDecode
    \/ StrIntoAtomic
    \/ StrEncode
    \/ SliceEncode
    \/ BlobEncode
    \/ BlobDecode
    \/ TagsEncode
    \/ TagsDecodeStep
    \/ AddressBuild
    \/ AddressEncode
    \/ AddressDecodeStep
    \/ MessageIntoOsc
    \/ MessageEncode
    \/ MessageDecode
    \/ TupleTags
    \/ TupleChained

Spec == Init /\ [][Next]_vars

\* ------------------------------------------------ decoders on byte streams

\* 4-byte units a stream is made of: zeros, the lengths 5 and 8, a negative
\* length, "/a\0\0", "/abc", ",i\0\0", ",ifs", "abcd", "a\0\0\0", a null
\* followed by a non-null, "ib\0\0", ",s\0\0", ",b\0\0", ",is\0", "/a//",
\* "/a/\0", "/\0\0\0", and the two units of
\* address_roundtrip_bytes_reduced_1 and _2, "//a\0", "/#\0\0", the length 1.
UnitSample ==
    { <<0, 0, 0, 0>>, <<0, 0, 0, 5>>, <<0, 0, 0, 8>>, <<128, 0, 0, 0>>,
      <<47, 97, 0, 0>>, <<47, 97, 98, 99>>, <<44, 105, 0, 0>>,
      <<44, 105, 102, 115>>, <<97, 98, 99, 100>>, <<97, 0, 0, 0>>,
      <<97, 0, 1, 0>>, <<105, 98, 0, 0>>, <<44, 115, 0, 0>>, <<44, 98, 0, 0>>,
      <<44, 105, 115, 0>>, <<47, 97, 47, 47>>, <<47, 97, 47, 0>>,
      <<47, 0, 0, 0>>, <<47, 1, 0, 1>>, <<47, 128, 0, 0>>,
      <<47, 47, 97, 0>>, <<47, 35, 0, 0>>, <<0, 0, 0, 1>> }

\* What follows the last complete unit: nothing, or 1 to 3 bytes.
TailSample ==
    { <<>>, <<0>>, <<1>>, <<97>>, <<47, 97>>, <<0, 0>>, <<44, 105, 0>>,
      <<97, 0, 0>> }

Streams ==
    {Concat(us) \o tl : us \in SeqsUpTo(UnitSample, MaxUnits), tl \in TailSample}

InitDec ==
    /\ input \in {[kind |-> "stream", bytes |-> s] : s \in Streams}
    /\ pc = "new"
    /\ op = "none"
    /\ iter = input.bytes
    /\ cache = CacheDefault
    /\ wire = <<>>
    /\ result = NoResult

\* Float::decode: the same body as Integer::decode.
FloatDecode(it) == Aligned4BDecode(it)

\* One call of a decoder on the stream: the result, and what the iterator has
\* left.
DecodeAligned4B ==
    /\ input.kind = "stream" /\ pc = "new"
    /\ LET d == Aligned4BDecode(iter) IN result' = d.res /\ iter' = d.it
    /\ pc' = "decoded"
    /\ op' = "Aligned4B::decode"
    /\ UNCHANGED <<input, cache, wire>>

DecodeInteger ==
    /\ input.kind = "stream" /\ pc = "new"
    /\ LET d == IntegerDecode(iter) IN result' = d.res /\ iter' = d.it
    /\ pc' = "decoded"
    /\ op' = "Integer::decode"
    /\ UNCHANGED <<input, cache, wire>>

DecodeFloat ==
    /\ input.kind = "stream" /\ pc = "new"
    /\ LET d == FloatDecode(iter) IN result' = d.res /\ iter' = d.it
    /\ pc' = "decoded"
    /\ op' = "Float::decode"
    /\ UNCHANGED <<input, cache, wire>>

DecodeDynamicString ==
    /\ input.kind = "stream" /\ pc = "new"
    /\ LET d == DynamicStringDecode(iter) IN result' = d.res /\ iter' = d.it
    /\ pc' = "decoded"
    /\ op' = "DynamicString::decode"
    /\ UNCHANGED <<input, cache, wire>>

\* unwrap_unchecked on an Err (fewer than 4 bytes) is undefined behaviour:
\* the size is then any of UbI32.
DecodeDynamicBlob ==
    /\ input.kind = "stream" /\ pc = "new"
    /\ \E ub \in (IF Len(iter) < 4 THEN UbI32 ELSE {0}) :
         LET d == DynamicBlobDecode(iter, ub) IN result' = d.res /\ iter' = d.it
    /\ pc' = "decoded"
    /\ op' = "DynamicBlob::decode"
    /\ UNCHANGED <<input, cache, wire>>

DecodeTags ==
    /\ input.kind = "stream" /\ pc = "new"
    /\ LET d == TagsDecode(iter) IN result' = d.res /\ iter' = d.it
    /\ pc' = "decoded"
    /\ op' = "Tags::decode"
    /\ UNCHANGED <<input, cache, wire>>

DecodeAddress ==
    /\ input.kind = "stream" /\ pc = "new"
    /\ LET d == AddressDecode(iter) IN result' = d.res /\ iter' = d.it
    /\ pc' = "decoded"
    /\ op' = "Address::decode"
    /\ UNCHANGED <<input, cache, wire>>

\* Dynamic::decode; where it unwraps an Err unchecked the value is any of
\* UbBytes, and the size of a blob any of UbI32.
DecodeDynamic ==
    /\ input.kind = "stream" /\ pc = "new"
    /\ \E ubsize \in UbI32, ubval \in UbBytes :
         LET d == DynamicDecode(iter, ubsize, ubval) IN
         result' = d.res /\ iter' = d.it
    /\ pc' = "decoded"
    /\ op' = "Dynamic::decode"
    /\ UNCHANGED <<input, cache, wire>>

\* decoded.into_iter().collect() of address_roundtrip_bytes: the address just
\* decoded is encoded again.
RecodeAddress ==
    /\ input.kind = "stream" /\ pc = "decoded"
    /\ op = "Address::decode" /\ result.ok
    /\ wire' = AddressIntoIter(result.val)
    /\ pc' = "recoded"
    /\ UNCHANGED <<input, op, iter, cache, result>>

\* decoded.into_iter().collect() of string_roundtrip_bytes.
RecodeString ==
    /\ input.kind = "stream" /\ pc = "decoded"
    /\ op = "DynamicString::decode" /\ result.ok
    /\ wire' = DynamicStringIntoIter(result.val)
    /\ pc' = "recoded"
    /\ UNCHANGED <<input, op, iter, cache, result>>

NextDec ==
    \/ DecodeAligned4B
    \/ DecodeInteger
    \/ DecodeFloat
    \/ DecodeDynamicString
    \/ DecodeDynamicBlob
    \/ DecodeTags
    \/ DecodeAddress
    \/ DecodeDynamic
    \/ RecodeAddress
    \/ RecodeString

SpecDec == InitDec /\ [][NextDec]_vars

\* ------------------------------- successive units from one iterator

\* The loop of four_byte_decode: Aligned4B::decode called again and again on
\* the same iterator; wire collects the units returned, and the first Err
\* ends the reading.
InitSeq ==
    /\ input \in {[kind |-> "stream", bytes |-> s] : s \in Streams}
    /\ pc = "reading"
    /\ op = "Aligned4B::decode"
    /\ iter = input.bytes
    /\ cache = CacheDefault
    /\ wire = <<>>
    /\ result = NoResult

Aligned4BCall ==
    /\ pc = "reading"
    /\ LET d == Aligned4BDecode(iter) IN
         /\ result' = d.res
         /\ iter' = d.it
         /\ wire' = IF d.res.ok THEN Append(wire, d.res.val) ELSE wire
         /\ pc' = IF d.res.ok THEN "reading" ELSE "ended"
    /\ UNCHANGED <<input, op, cache>>

SpecSeq == InitSeq /\ [][Aligned4BCall]_vars

\* ------------------------------------- loops and iterators, turn by turn

\* Most complete 4-byte units of a stream a decoder's loop is followed over.
MaxLoops == 3

\* Units that keep a loop going or end it: "/abc", "abcd", ",ifs", "iibs",
\* "i\0\0\0".
LoopUnits ==
    { <<47, 97, 98, 99>>, <<97, 98, 99, 100>>, <<44, 105, 102, 115>>,
      <<105, 105, 98, 115>>, <<105, 0, 0, 0>> }

\* A stream ends with a unit or inside one.
LoopTails == { <<>>, <<47, 97, 0>> }

LoopStreams ==
    {Concat(us) \o tl : us \in SeqsUpTo(LoopUnits, MaxLoops), tl \in LoopTails}

Decoders == {"Address::decode", "Tags::decode", "DynamicString::decode"}

\* The locals of a decoder before its first unit: post_slash = true and
\* v = vec![String::new()] in Address::decode, an empty vector in the others.
LoopLocals(name) ==
    [first |-> TRUE, post_slash |-> TRUE,
     v |-> IF name = "Address::decode" THEN <<<<>>>> ELSE <<>>]

\* Address::decode on one unit: the first unit with its leading '/', or one
\* turn of its loop. [done, res] when it returns, [done = FALSE, loc] when
\* it goes round again.
AddressTurn(bytes, loc) ==
    IF loc.first THEN
        IF bytes[1] # 47
        THEN [done |-> TRUE, res |-> Err(Other(<<"LeadingSlash", bytes[1]>>))]
        ELSE LET r1 == ParseAddressChar(bytes[2], <<bytes[3], bytes[4]>>,
                                        loc.post_slash, loc.v) IN
             IF r1.ret # <<>> THEN [done |-> TRUE, res |-> AddrReturn(r1)]
             ELSE LET r2 == ParseAddressChars(r1.bytes, r1.post_slash, r1.v) IN
                  IF r2.ret # <<>> THEN [done |-> TRUE, res |-> AddrReturn(r2)]
                  ELSE [done |-> FALSE,
                        loc |-> [first |-> FALSE, post_slash |-> r2.post_slash,
                                 v |-> r2.v]]
    ELSE LET r == ParseAddressChars(bytes, loc.post_slash, loc.v) IN
         IF r.ret # <<>> THEN [done |-> TRUE, res |-> AddrReturn(r)]
         ELSE [done |-> FALSE,
               loc |-> [first |-> FALSE, post_slash |-> r.post_slash, v |-> r.v]]

\* Tags::decode on one unit.
TagsTurn(bytes, loc) ==
    LET u == IF loc.first THEN TagsFirstUnit(bytes) ELSE TagsUnit(bytes, loc.v) IN
    IF u.done THEN u
    ELSE [done |-> FALSE, loc |-> [loc EXCEPT !.first = FALSE, !.v = u.v]]

\* DynamicString::decode on one unit.
StringTurn(bytes, loc) ==
    LET u == DynamicStringUnit(bytes, loc.v) IN
    IF u.done THEN u
    ELSE [done |-> FALSE, loc |-> [loc EXCEPT !.first = FALSE, !.v = u.s]]

\* The bytes an atomic value's iterator holds before .batch().
AtomicBytes(a) ==
    CASE a.tag = "Integer" -> a.data
      [] a.tag = "Float"   -> a.data
      [] a.tag = "String"  -> a.data \o <<0>>
      [] a.tag = "Blob"    -> a.data

\* The iterators Message::into_iter chains after the address, each before
\* .batch(): the tag string, then each element of the tuple.
MessageRest(m) ==
    <<(<<44>> \o MapTagAsU8(TupleTypeTag(m.data)) \o <<0>>)>>
        \o [i \in 1..Len(m.data) |-> AtomicBytes(m.data[i])]

\* iter.next().unwrap_or(0).
UnwrapOrZero(item) == IF item = <<>> THEN 0 ELSE item[1]

\* Cache::new over an address Iter: three more calls of its next.
CacheNewIter(st) ==
    LET r1 == AddrIterNext(st)
        r2 == AddrIterNext(r1.st)
        r3 == AddrIterNext(r2.st)
    IN  [cache |-> [buffer |-> <<UnwrapOrZero(r1.item), UnwrapOrZero(r2.item),
                                 UnwrapOrZero(r3.item)>>,
                    index |-> 0],
         st |-> r3.st]

\* <Batched<Iter> as Iterator>::next on the state b = [iter, cache].
BatchedIterNext(b) ==
    LET cn == CacheNext(b.cache) IN
    IF cn.item # <<>>
    THEN [item |-> cn.item, st |-> [iter |-> b.iter, cache |-> cn.cache]]
    ELSE LET tmp == AddrIterNext(b.iter) IN
         IF tmp.item # <<>>
         THEN LET nc == CacheNewIter(tmp.st) IN
              [item |-> tmp.item, st |-> [iter |-> nc.st, cache |-> nc.cache]]
         ELSE [item |-> <<>>, st |-> [iter |-> tmp.st, cache |-> b.cache]]

\* Chain::next once its first half has returned None: the next of the
\* iterators that are left, the first that yields.
RECURSIVE RestNext(_)
RestNext(parts) ==
    IF parts = <<>>
    THEN [item |-> <<>>, iter |-> <<>>, cache |-> CacheDefault, rest |-> <<>>]
    ELSE LET r == BatchedNext(BatchedNew(Head(parts))) IN
         IF r.item # <<>>
         THEN [item |-> r.item, iter |-> r.st.iter, cache |-> r.st.cache,
               rest |-> Tail(parts)]
         ELSE RestNext(Tail(parts))

\* Segments of the addresses iterated, the empty segment among them.
IterSegs == { <<>>, <<97>>, <<97, 98, 99>> }

\* What is iterated: addresses (built by hand or decoded, so with empty
\* segments too), strings, and the messages into_osc accepts.
IterInputs ==
    {[kind |-> "Address", address |-> Address(p, m)] :
        p \in SeqsUpTo(IterSegs, MaxPath), m \in IterSegs}
    \cup {[kind |-> "String", s |-> s] : s \in {<<>>, OscStr, DataStr, Hello}}
    \cup {[kind |-> "Message",
           message |-> IntoOsc(i.values, i.path, i.method).val] :
          i \in {j \in MessageInputs :
                    /\ Len(j.values) <= 1 \/ j \in {MessageFoo, TupleIisfff, TupleIbb}
                    /\ IntoOsc(j.values, j.path, j.method).ok}}

\* A decoder is called on a stream, or an encoded value is about to be
\* iterated: `cache` holds the decoder's locals or the Batched's Cache,
\* `result` the iterators chained behind the one in `iter`.
InitTerm ==
    \/ /\ input \in {[kind |-> "stream", bytes |-> s] : s \in LoopStreams}
       /\ op \in Decoders
       /\ pc = "looping"
       /\ iter = input.bytes
       /\ cache = LoopLocals(op)
       /\ wire = <<>>
       /\ result = NoResult
    \/ /\ input \in IterInputs
       /\ pc = "iterating"
       /\ op = IF input.kind = "String" THEN "Bytes" ELSE "Iter"
       /\ iter = CASE input.kind = "Address" -> AddrIterNew(input.address)
                   [] input.kind = "String" -> input.s \o <<0>>
                   [] input.kind = "Message" -> AddrIterNew(input.message.address)
       /\ cache = CacheDefault
       /\ wire = <<>>
       /\ result = IF input.kind = "Message" THEN MessageRest(input.message) ELSE <<>>

\* Address::decode takes one unit: it returns, or goes round its loop.
AddressLoop ==
    /\ pc = "looping" /\ op = "Address::decode"
    /\ \E a \in {Aligned4BDecode(iter)} :
       /\ iter' = a.it
       /\ IF ~a.res.ok
          THEN result' = a.res /\ pc' = "returned" /\ cache' = cache
          ELSE \E t \in {AddressTurn(a.res.val, cache)} :
               IF t.done
               THEN result' = t.res /\ pc' = "returned" /\ cache' = cache
               ELSE result' = result /\ pc' = pc /\ cache' = t.loc
    /\ UNCHANGED <<input, op, wire>>

\* Tags::decode takes one unit.
TagsLoopTurn ==
    /\ pc = "looping" /\ op = "Tags::decode"
    /\ \E a \in {Aligned4BDecode(iter)} :
       /\ iter' = a.it
       /\ IF ~a.res.ok
          THEN result' = a.res /\ pc' = "returned" /\ cache' = cache
          ELSE \E t \in {TagsTurn(a.res.val, cache)} :
               IF t.done
               THEN result' = t.res /\ pc' = "returned" /\ cache' = cache
               ELSE result' = result /\ pc' = pc /\ cache' = t.loc
    /\ UNCHANGED <<input, op, wire>>

\* DynamicString::decode takes one unit.
StringLoopTurn ==
    /\ pc = "looping" /\ op = "DynamicString::decode"
    /\ \E a \in {Aligned4BDecode(iter)} :
       /\ iter' = a.it
       /\ IF ~a.res.ok
          THEN result' = a.res /\ pc' = "returned" /\ cache' = cache
          ELSE \E t \in {StringTurn(a.res.val, cache)} :
               IF t.done
               THEN result' = t.res /\ pc' = "returned" /\ cache' = cache
               ELSE result' = result /\ pc' = pc /\ cache' = t.loc
    /\ UNCHANGED <<input, op, wire>>

\* One call of next while the address is being iterated; `wire` is what the
\* call returned. When the address is at its end the chain goes on to the
\* iterators behind it.
IterNextCall ==
    /\ pc = "iterating" /\ op = "Iter"
    /\ \E r \in {BatchedIterNext([iter |-> iter, cache |-> cache])} :
       IF r.item # <<>>
       THEN /\ wire' = r.item
            /\ iter' = r.st.iter /\ cache' = r.st.cache
            /\ UNCHANGED <<op, pc, result>>
       ELSE \E n \in {RestNext(result)} :
            /\ wire' = n.item
            /\ iter' = n.iter /\ cache' = n.cache /\ result' = n.rest
            /\ op' = "Bytes"
            /\ pc' = IF n.item = <<>> THEN "done" ELSE pc
    /\ UNCHANGED input

\* One call of next while a string, the tag string or a value is being
\* iterated.
BytesNextCall ==
    /\ pc = "iterating" /\ op = "Bytes"
    /\ \E r \in {BatchedNext([iter |-> iter, cache |-> cache])} :
       IF r.item # <<>>
       THEN /\ wire' = r.item
            /\ iter' = r.st.iter /\ cache' = r.st.cache
            /\ UNCHANGED <<pc, result>>
       ELSE \E n \in {RestNext(result)} :
            /\ wire' = n.item
            /\ iter' = n.iter /\ cache' = n.cache /\ result' = n.rest
            /\ pc' = IF n.item = <<>> THEN "done" ELSE pc
    /\ UNCHANGED <<input, op>>

NextTerm ==
    \/ AddressLoop
    \/ TagsLoopTurn
    \/ StringLoopTurn
    \/ IterNextCall
    \/ BytesNextCall

\* A call that has begun runs on: the caller's loop over next, and each
\* decoder's own loop, are sequential code that nothing else can hold up.
SpecTerm == InitTerm /\ [][NextTerm]_vars /\ WF_vars(NextTerm)

\* ------------------------------------------------------------ the claims

\* What the wire format asks of a field: its bytes, zero-padded to a
\* multiple of 4.
Padded(bytes) == bytes \o Zeros(PadLen(Len(bytes)))

\* An address as the claims describe a valid one: every segment and the
\* method non-empty and free of the characters OSC forbids.
ForbiddenChar(c) ==
    \/ c \in {35, 42, 44, 47, 63, 91, 93, 123, 125, 32}
    \/ c < 32
    \/ c > 126

BadSegment(s) == s = <<>> \/ \E i \in 1..Len(s) : ForbiddenChar(s[i])

\* C2: decoding the bytes of a valid address gives back the same path
\* segments in the same order and the same method; and every address whose
\* segments and method are non-empty and valid is one that gets encoded.
C2_AddressRoundTrip ==
    input.kind = "address" =>
        /\ pc = "decoded" =>
             result = Ok([path |-> input.path, method |-> input.method])
        /\ (/\ \A i \in 1..Len(input.path) : ~BadSegment(input.path[i])
            /\ ~BadSegment(input.method)) => pc # "rejected"

\* The address /oscillator/4/frequency has gone through encode and decode.
C2_Witness ==
    /\ input.kind = "address"
    /\ pc = "decoded"
    /\ input.path = <<Oscillator, Four>>
    /\ Len(wire) = 24
    /\ result.ok

\* C3: decoding the encoded bytes of an ASCII string without a null byte
\* gives Ok of that string; every such string is accepted for encoding.
C3_StringRoundTrip ==
    input.kind = "string" =>
        /\ pc = "decoded" => result = Ok(input.s)
        /\ (\A i \in 1..Len(input.s) : input.s[i] \in 1..127) => pc # "rejected"

\* A string of 4 characters, whose terminator starts a second unit, has gone
\* through encode and decode.
C3_Witness ==
    /\ input.kind = "string"
    /\ pc = "decoded"
    /\ Len(input.s) = 4
    /\ Len(wire) = 8
    /\ result.ok

\* C4: decoding the encoded bytes of a blob b gives Ok of a blob whose
\* content is b.
C4_BlobRoundTrip ==
    (input.kind = "blob" /\ pc = "decoded") => result = Ok(input.b)

\* C5: a tag sequence t is encoded as ',' then one character per tag, then a
\* null, zero-padded to a multiple of 4, and decoding that gives Ok(t).
C5_TagsRoundTrip ==
    input.kind = "tags" =>
        /\ pc \in {"encoded", "decoded"} =>
             wire = Padded(<<44>> \o [i \in 1..Len(input.tags) |-> TagAsU8(input.tags[i])]
                           \o <<0>>)
        /\ pc = "decoded" => result = Ok(input.tags)

\* Seven tags, which with the comma fill two units, have gone through
\* encode and decode.
C5_Witness ==
    /\ input.kind = "tags"
    /\ pc = "decoded"
    /\ Len(input.tags) = 7
    /\ Len(wire) = 12
    /\ result.ok

\* C6: Tag::try_from(t as u8) = Ok(t) for every tag t; for every byte b,
\* try_from(b) is Ok(t) only if t as u8 = b, and it is
\* Err(UnrecognizedTypeTag(b)) when b is none of 'i', 'f', 's', 'b'.
C6_TagByteBijection ==
    /\ (input.kind = "tag" /\ pc = "decoded") => result = Ok(input.tag)
    /\ (input.kind = "byte" /\ pc = "decoded") =>
         /\ result.ok => TagAsU8(result.val) = input.byte
         /\ input.byte \notin {105, 102, 115, 98} =>
              result = Err(<<"UnrecognizedTypeTag", input.byte>>)
         /\ input.byte \in {105, 102, 115, 98} => result.ok

\* The byte 's' has been turned into the String tag.
C6_Witness ==
    /\ input.kind = "byte"
    /\ pc = "decoded"
    /\ input.byte = 115
    /\ result = Ok("String")

\* The segments of an address in scan order: the path, then the method.
ScanOrder == input.path \o <<input.method>>

\* The first segment in scan order that is empty or holds a forbidden
\* character, when there is one.
FirstBad ==
    CHOOSE k \in 1..Len(ScanOrder) :
        /\ BadSegment(ScanOrder[k])
        /\ \A j \in 1..(k - 1) : ~BadSegment(ScanOrder[j])

\* The first forbidden character of a non-empty bad segment.
FirstForbidden(s) ==
    s[CHOOSE i \in 1..Len(s) :
        /\ ForbiddenChar(s[i])
        /\ \A j \in 1..(i - 1) : ~ForbiddenChar(s[j])]

\* C8: into_address returns Ok exactly when no segment and not the method is
\* empty or holds a forbidden character; otherwise the first violation in
\* scan order decides: Err(Empty) for an empty segment, and
\* Err(InvalidCharacter(c)) for the first forbidden byte c.
C8_IntoAddressRejection ==
    (input.kind = "address" /\ op = "into_address") =>
        IF \A k \in 1..Len(ScanOrder) : ~BadSegment(ScanOrder[k])
        THEN result = Ok([path |-> input.path, method |-> input.method])
        ELSE IF ScanOrder[FirstBad] = <<>>
        THEN result = Err(<<"Empty">>)
        ELSE result = Err(<<"InvalidCharacter", FirstForbidden(ScanOrder[FirstBad])>>)

\* The path a, a/ has been rejected for the '/' of its second segment.
C8_Witness ==
    /\ input.kind = "address"
    /\ op = "into_address"
    /\ input.path = <<<<97>>, <<97, 47>>>>
    /\ result = Err(<<"InvalidCharacter", 47>>)

RECURSIVE SlashJoin(_)
SlashJoin(segs) ==
    IF segs = <<>> THEN <<>> ELSE <<47>> \o Head(segs) \o SlashJoin(Tail(segs))

\* The four bytes of a 32-bit pattern, most significant first.
BigEndian(v) ==
    LET top == IF v < 0 THEN 256 + (v \div 16777216) ELSE v \div 16777216 IN
    <<top, (v % 16777216) \div 65536, (v % 65536) \div 256, v % 256>>

\* The encoded bytes of one value: an integer or float as its 4 bytes, a
\* string with its terminator and padding, a blob as its own encoder does.
ValueBytes(value) ==
    CASE value.tag = "Integer" -> BigEndian(value.i)
      [] value.tag = "Float" -> BigEndian(value.f)
      [] value.tag = "String" -> Padded(value.s \o <<0>>)
      [] value.tag = "Blob" -> BlobIntoIter(value.b)

TagChar(value) ==
    CASE value.tag = "Integer" -> 105
      [] value.tag = "Float" -> 102
      [] value.tag = "String" -> 115
      [] value.tag = "Blob" -> 98

\* C7: iterating a Message yields the address bytes ('/' + segment for each
\* path segment and the method, a null, zero padding), then the tag string
\* (',' + one character per value + a null, zero padding), then the encoded
\* bytes of each value in declared order; the two examples of test.rs give
\* the bytes written there.
C7_MessageLayout ==
    (input.kind = "message" /\ pc = "encoded") =>
        /\ wire = Padded(SlashJoin(input.path \o <<input.method>>) \o <<0>>)
                  \o Padded(<<44>> \o [i \in 1..Len(input.values) |-> TagChar(input.values[i])]
                            \o <<0>>)
                  \o Concat([i \in 1..Len(input.values) |-> ValueBytes(input.values[i])])
        /\ input = MessageOscillator =>
             wire = <<47>> \o Oscillator \o <<47>> \o Four \o <<47>> \o Frequency \o <<0>>
                    \o <<44, 102, 0, 0>> \o <<67, 220, 0, 0>>
        /\ input = MessageFoo =>
             wire = <<47>> \o Foo \o <<0, 0, 0, 0>> \o <<44, 105, 105, 115, 102, 102, 0, 0>>
                    \o <<0, 0, 3, 232>> \o <<255, 255, 255, 255>> \o Hello \o <<0, 0, 0>>
                    \o <<63, 157, 243, 182>> \o <<64, 181, 178, 45>>

\* The message /foo ,iisff of test.rs has been encoded to its 40 bytes.
C7_Witness ==
    /\ input = MessageFoo
    /\ pc = "encoded"
    /\ Len(wire) = 40

\* The complete 4-byte units at the front of a stream.
WholeUnits(bytes) == Take(bytes, 4 * (Len(bytes) \div 4))

\* The complete units of the stream are a proper beginning of a field of the
\* decoder: the decoder can neither finish nor fail on content before it
\* comes to the unit that cannot be completed.
FieldUnfinished(name, bytes) ==
    LET whole == WholeUnits(bytes) IN
    CASE name \in {"Aligned4B::decode", "Integer::decode", "Float::decode"} ->
            whole = <<>>
      [] name = "DynamicString::decode" ->
            \A i \in 1..Len(whole) : whole[i] \in 1..127
      [] name = "DynamicBlob::decode" ->
            \/ whole = <<>>
            \/ /\ whole[1] = 0 /\ whole[2] = 0 /\ whole[3] = 0
               /\ whole[4] > Len(whole) - 4
      [] name = "Tags::decode" ->
            \/ whole = <<>>
            \/ /\ whole[1] = 44
               /\ \A i \in 2..Len(whole) : whole[i] \in {105, 102, 115, 98}
      [] name = "Address::decode" ->
            \/ whole = <<>>
            \/ /\ whole[1] = 47
               /\ \A i \in 2..Len(whole) :
                    /\ ~ForbiddenChar(whole[i]) \/ whole[i] = 47
                    /\ whole[i] = 47 => whole[i - 1] # 47
      [] OTHER -> FALSE

\* C10: for every decoder, decoding a byte sequence whose length is not a
\* multiple of 4 fails with Misaligned, raised at the first 4-byte unit that
\* cannot be completed (stated for the streams on which the decoder has to
\* come to that unit).
C10_MisalignedOnPartialUnit ==
    ( /\ input.kind = "stream" /\ pc = "decoded"
      /\ Len(input.bytes) % 4 # 0
      /\ FieldUnfinished(op, input.bytes) )
    => result = Err(Misaligned)

\* The same statement for every decoder but DynamicBlob.
C10_OtherDecoders ==
    op # "DynamicBlob::decode" => C10_MisalignedOnPartialUnit

\* Reached: DynamicBlob::decode returns an empty blob from a stream that
\* declares 5 bytes of content and holds 1, and leaves that byte unread.
C10_BlobReadsNoContent ==
    /\ input.kind = "stream" /\ input.bytes = <<0, 0, 0, 5, 1>>
    /\ op = "DynamicBlob::decode" /\ pc = "decoded"
    /\ result = Ok(<<>>) /\ iter = <<1>>

\* C11: on a byte sequence of length n, the first floor(n/4) successive calls
\* of Aligned4B::decode succeed and return the consecutive 4-byte units in
\* order; after them the iterator is exhausted when n mod 4 = 0, and
\* otherwise the next call returns an error. (wire holds the units returned so
\* far; a call that fails ends the reading.)
C11_AlignedSequencing ==
    LET n == Len(input.bytes)
        k == Len(wire)
    IN  /\ k <= n \div 4
        /\ \A i \in 1..k : wire[i] = SubSeq(input.bytes, 4 * i - 3, 4 * i)
        /\ pc = "reading" => iter = Drop(input.bytes, 4 * k)
        /\ pc = "ended" => k = n \div 4 /\ ~result.ok
        /\ (pc = "reading" /\ k = n \div 4 /\ n % 4 = 0) => iter = <<>>

\* Two units have been read from a sequence of 9 or more bytes that is not a
\* whole number of units, and the third call has failed.
C11_Witness ==
    /\ pc = "ended"
    /\ Len(input.bytes) > 8 /\ Len(input.bytes) % 4 # 0
    /\ Len(wire) = 2
    /\ ~result.ok

\* C12: the aligned reader reports three distinguishable outcomes for a unit:
\* a full unit, a clean end of stream (the source ended before any byte of
\* the unit) and a partial unit (the source ended after 1, 2 or 3 bytes of
\* it); the clean end is a different value from the partial-unit
\* misalignment. (A failed call ends the reading: the unit it was reading
\* starts after the Len(wire) units read before it.)
C12_ThreeOutcomes ==
    LET left == Len(input.bytes) - 4 * Len(wire) IN
    /\ (pc = "ended" /\ left \in 1..3) => result = Err(Misaligned)
    /\ (pc = "ended" /\ left = 0) => (~result.ok /\ result # Err(Misaligned))
    /\ (pc = "reading" /\ wire # <<>>) => result = Ok(wire[Len(wire)])

\* C13: for every valid string s, borrowed or owned, the encoded bytes are
\* the bytes of s, one null terminator, and zero bytes up to the next
\* multiple of 4, so the encoded length is 4 * (floor(len(s)/4) + 1); "osc"
\* encodes to the 4 bytes "osc\0" and "data" to "data\0\0\0\0".
C13_StringFormat ==
    (input.kind \in {"string", "str"} /\ pc \in {"encoded", "decoded"}) =>
        LET s == input.s
            n == Len(s)
            len == 4 * ((n \div 4) + 1)
        IN  /\ Len(wire) = len
            /\ \A i \in 1..n : wire[i] = s[i]
            /\ \A i \in (n + 1)..len : wire[i] = 0
            /\ s = OscStr => wire = <<111, 115, 99, 0>>
            /\ s = DataStr => wire = <<100, 97, 116, 97, 0, 0, 0, 0>>

\* The borrowed string "data" has been encoded to its 8 bytes.
C13_Witness ==
    /\ input.kind = "str" /\ input.s = DataStr
    /\ pc = "encoded"
    /\ Len(wire) = 8

\* C14: for every byte sequence b, the encoded blob is a 4-byte big-endian
\* length prefix holding len(b), followed by the bytes of b, followed by
\* zero bytes up to the next multiple of 4.
C14_BlobFormat ==
    (input.kind \in {"blob", "slice"} /\ pc = "encoded") =>
        wire = BigEndian(Len(input.b)) \o Padded(input.b)

\* C15: converting a Rust string into an OSC string, borrowed (String) or
\* owned (DynamicString), returns Err(NonAscii) if the string has a
\* non-ASCII character (also when it has a null byte as well), otherwise
\* Err(NullInString) if it has a null byte, otherwise Ok of the unchanged
\* string.
C15_StringValidation ==
    (input.kind \in {"string", "str"}
        /\ op \in {"String::try_from", "DynamicString::try_from"}) =>
        LET s == input.s IN
        IF \E i \in 1..Len(s) : s[i] > 127 THEN result = Err(<<"NonAscii">>)
        ELSE IF \E i \in 1..Len(s) : s[i] = 0 THEN result = Err(<<"NullInString">>)
        ELSE result = Ok(s)

\* A borrowed string with a null byte ahead of a non-ASCII character has
\* been rejected as NonAscii.
C15_Witness ==
    /\ input.kind = "str" /\ input.s = <<97, 0, 233>>
    /\ op = "String::try_from"
    /\ result = Err(<<"NonAscii">>)

\* C16: for every decoder (Address, Tags, DynamicString, DynamicBlob,
\* Dynamic) and every finite input, decode returns Ok or a typed Err: no
\* decode path performs an unchecked unwrap on an Err, and
\* DynamicBlob::decode on a stream with fewer than 4 bytes returns
\* Err(Misaligned).
C16_DecodeReturnsResult ==
    ( /\ input.kind = "stream" /\ pc = "decoded"
      /\ op \in {"Address::decode", "Tags::decode", "DynamicString::decode",
                 "DynamicBlob::decode", "Dynamic::decode"} )
    => /\ ~UnwrapsErr(op, input.bytes)
       /\ (op = "DynamicBlob::decode" /\ Len(input.bytes) < 4)
            => result = Err(Misaligned)

\* The same statement for Address, Tags and DynamicString alone.
C16_UncheckedFreeDecoders ==
    op \in {"Address::decode", "Tags::decode", "DynamicString::decode"}
        => C16_DecodeReturnsResult

\* Reached: Dynamic::decode returns Ok of an integer it never read, from a
\* stream that holds the tag string ",i" and nothing after it.
C16_DynamicInventsValue ==
    /\ input.kind = "stream" /\ input.bytes = <<44, 105, 0, 0>>
    /\ op = "Dynamic::decode" /\ pc = "decoded"
    /\ result = Ok(<<[tag |-> "Integer", data |-> <<255, 255, 255, 255>>]>>)

\* A string value that String::try_from refuses.
InvalidString(value) ==
    /\ value.tag = "String"
    /\ \E i \in 1..Len(value.s) : value.s[i] = 0 \/ value.s[i] > 127

\* The reason it is refused.
StringErrOf(value) ==
    IF \E i \in 1..Len(value.s) : value.s[i] > 127
    THEN <<"NonAscii">> ELSE <<"NullInString">>

\* C17: into_osc returns either Ok of a whole message or Err(AddressErr); it
\* validates the address before it converts the values, so an invalid
\* address gives the address error (Empty or InvalidCharacter) even if a
\* value is invalid too, and a valid address with a string value that is
\* non-ASCII or holds a null gives Err(StringErr(e)) for the first such
\* value in tuple order.
C17_ValidationOrder ==
    (input.kind = "message" /\ op = "into_osc") =>
        LET vs == input.values
            bad == {i \in 1..Len(vs) : InvalidString(vs[i])}
            first == CHOOSE i \in bad : \A j \in bad : i <= j
        IN  IF \E i \in 1..Len(ScanOrder) : BadSegment(ScanOrder[i])
            THEN /\ ~result.ok
                 /\ result.err[1] \in {"Empty", "InvalidCharacter"}
            ELSE IF bad # {}
            THEN result = Err(<<"StringErr">> \o StringErrOf(vs[first]))
            ELSE /\ result.ok
                 /\ result.val.address = [path |-> input.path, method |-> input.method]
                 /\ Len(result.val.data) = Len(vs)
                 /\ \A i \in 1..Len(vs) : result.val.data[i].tag = vs[i].tag

\* into_osc has returned Empty for an empty method although the first value
\* is a non-ASCII string.
C17_Witness ==
    /\ input.kind = "message" /\ op = "into_osc"
    /\ input.method = <<>>
    /\ Len(input.values) = 2 /\ input.values[1] = [tag |-> "String", s |-> <<233>>]
    /\ result = Err(<<"Empty">>)

\* C18: every Address that Address::decode returns as Ok, on any input, has
\* a non-empty method and only non-empty path segments, and every character
\* of every segment and of the method is a valid address character, so
\* into_address on its parts succeeds.
C18_DecodedAddressInvariant ==
    (input.kind = "stream" /\ op = "Address::decode" /\ pc = "decoded" /\ result.ok) =>
        /\ ~BadSegment(result.val.method)
        /\ \A i \in 1..Len(result.val.path) : ~BadSegment(result.val.path[i])
        /\ IntoAddress(result.val.path, result.val.method).ok

\* Reached: "/a//a\0\0\0" is decoded to an address with an empty segment.
C18_EmptySegmentDecoded ==
    /\ input.kind = "stream" /\ input.bytes = <<47, 97, 47, 47, 97, 0, 0, 0>>
    /\ op = "Address::decode" /\ pc = "decoded"
    /\ result = Ok([path |-> <<<<97>>, <<>>>>, method |-> <<97>>])

\* The place of the first null byte of a sequence that has one.
FirstNull(bytes) ==
    CHOOSE i \in 1..Len(bytes) :
        bytes[i] = 0 /\ \A j \in 1..(i - 1) : bytes[j] # 0

\* The sequence starts as an address does and its terminating null comes
\* right after a '/': a leading '/', valid characters and single slashes up
\* to the first null, a '/' just before it, and the null's unit complete.
NullAfterSlash(bytes) ==
    /\ \E i \in 1..Len(bytes) : bytes[i] = 0
    /\ LET n == FirstNull(bytes) IN
        /\ n >= 2 /\ bytes[1] = 47 /\ bytes[n - 1] = 47
        /\ \A j \in 2..(n - 1) :
             /\ bytes[j] = 47 \/ ~ForbiddenChar(bytes[j])
             /\ j < n - 1 => ~(bytes[j] = 47 /\ bytes[j - 1] = 47)
        /\ 4 * ((n + 3) \div 4) <= Len(bytes)

\* C20: address decoding fails with NoMethod whenever the terminating null
\* byte immediately follows a '/', at any position of the address: for
\* "/\0.." and also for "/a/\0", whose last segment is empty.
C20_NoMethodAnywhere ==
    ( /\ input.kind = "stream" /\ op = "Address::decode" /\ pc = "decoded"
      /\ NullAfterSlash(input.bytes) )
    => result = Err(Other(<<"NoMethod">>))

\* The same statement for the null that follows the leading '/'.
C20_NoMethodAtStart ==
    (Len(input.bytes) >= 2 /\ input.bytes[2] = 0) => C20_NoMethodAnywhere

\* C19: for every byte sequence x, if Address::decode(x) (respectively
\* DynamicString::decode(x)) returns Ok(v), the bytes produced by encoding v
\* agree with x at every position: the re-encoding is a prefix of x, and
\* equals x when x is a single 4-byte unit.
C19_RecodeCanonical ==
    (input.kind = "stream" /\ pc = "recoded") =>
        /\ Len(wire) <= Len(input.bytes)
        /\ \A i \in 1..Len(wire) : wire[i] = input.bytes[i]
        /\ Len(input.bytes) = 4 => wire = input.bytes

\* "/abc" "/a\0\0" has been decoded as an address and encoded again to its
\* 8 bytes.
C19_Witness ==
    /\ input.kind = "stream" /\ pc = "recoded" /\ op = "Address::decode"
    /\ input.bytes = <<47, 97, 98, 99, 47, 97, 0, 0>>
    /\ result = Ok([path |-> <<<<97, 98, 99>>>>, method |-> <<97>>])
    /\ Len(wire) = 8

\* The string "abcda" of "abcd" "a\0\0\0" has been decoded and encoded again.
C19_WitnessString ==
    /\ input.kind = "stream" /\ pc = "recoded" /\ op = "DynamicString::decode"
    /\ input.bytes = <<97, 98, 99, 100, 97, 0, 0, 0>>
    /\ result = Ok(<<97, 98, 99, 100, 97>>)

\* The place of the first '/' that comes right after another '/'.
FirstDoubleSlash(bytes) ==
    CHOOSE i \in 2..Len(bytes) :
        /\ bytes[i] = 47 /\ bytes[i - 1] = 47
        /\ \A j \in 2..(i - 1) : ~(bytes[j] = 47 /\ bytes[j - 1] = 47)

\* The sequence starts as an address does and then has a '/' right after a
\* '/': a leading '/', valid characters and single slashes up to there, and
\* the unit of the second '/' complete.
SlashAfterSlash(bytes) ==
    /\ \E i \in 2..Len(bytes) : bytes[i] = 47 /\ bytes[i - 1] = 47
    /\ LET n == FirstDoubleSlash(bytes) IN
        /\ bytes[1] = 47
        /\ \A j \in 2..(n - 1) : bytes[j] = 47 \/ ~ForbiddenChar(bytes[j])
        /\ 4 * ((n + 3) \div 4) <= Len(bytes)

\* C21: address decoding fails with EmptySegment whenever a '/' immediately
\* follows another '/', at any position of the address ("//a" and "/a//b"
\* alike).
C21_EmptySegmentAnywhere ==
    ( /\ input.kind = "stream" /\ op = "Address::decode" /\ pc = "decoded"
      /\ SlashAfterSlash(input.bytes) )
    => result = Err(Other(<<"EmptySegment">>))

\* The same statement for a '/' right after the leading '/'.
C21_EmptySegmentAtStart ==
    (Len(input.bytes) >= 2 /\ input.bytes[2] = 47) => C21_EmptySegmentAnywhere

\* Reached: "//a\0" fails with EmptySegment.
C21_StartReached ==
    /\ input.kind = "stream" /\ input.bytes = <<47, 47, 97, 0>>
    /\ op = "Address::decode" /\ pc = "decoded"
    /\ result = Err(Other(<<"EmptySegment">>))

\* The bytes at which scanning an address stops: a null, a pattern
\* character, a byte that is not printable ASCII.
Stops(b) == b = 0 \/ b \in {32, 35, 42, 44, 63, 91, 93, 123, 125} \/ b <= 31 \/ b >= 127

\* The place of the first such byte after the leading '/'.
FirstStop(bytes) ==
    CHOOSE i \in 2..Len(bytes) :
        Stops(bytes[i]) /\ \A j \in 2..(i - 1) : ~Stops(bytes[j])

\* C22: address decoding classifies bytes in stream order and the first
\* offending byte decides the error. With a complete first unit, a first
\* byte other than '/' gives LeadingSlash{actual}; after it, up to the
\* first null, pattern or non-printable byte (in a complete unit, and with
\* no '/' right before a '/' or a null up to there), a pattern byte gives
\* PatternsNotYetImplemented(byte), a byte <= 31 or >= 127 gives
\* NotPrintableAscii(byte), and a null with a non-null byte after it in its
\* unit gives NullThenNonNull. [0x2F,0x01,0x00,0x01] and
\* [0x2F,0x80,0x00,0x00] fail with NotPrintableAscii.
C22_FirstOffendingByte ==
    ( /\ input.kind = "stream" /\ op = "Address::decode" /\ pc = "decoded"
      /\ Len(input.bytes) >= 4 )
    => LET x == input.bytes
           whole == WholeUnits(x)
       IN  /\ x[1] # 47 => result = Err(Other(<<"LeadingSlash", x[1]>>))
           /\ ( /\ x[1] = 47
                /\ \E i \in 2..Len(whole) : Stops(whole[i])
                /\ \A j \in 2..FirstStop(whole) :
                     ~(whole[j - 1] = 47 /\ whole[j] \in {0, 47}) )
              => LET k == FirstStop(whole)
                     b == whole[k]
                     unitEnd == 4 * ((k + 3) \div 4)
                 IN  /\ b \in {32, 35, 42, 44, 63, 91, 93, 123, 125}
                          => result = Err(Other(<<"PatternsNotYetImplemented", b>>))
                     /\ (b # 0 /\ (b <= 31 \/ b >= 127))
                          => result = Err(Other(<<"NotPrintableAscii", b>>))
                     /\ (b = 0 /\ \E j \in (k + 1)..unitEnd : whole[j] # 0)
                          => result = Err(Other(<<"NullThenNonNull">>))
           /\ x = <<47, 1, 0, 1>> => result = Err(Other(<<"NotPrintableAscii", 1>>))
           /\ x = <<47, 128, 0, 0>> => result = Err(Other(<<"NotPrintableAscii", 128>>))

\* "/#\0\0" has been refused for its pattern character, after "/abc".
C22_Witness ==
    /\ input.kind = "stream" /\ op = "Address::decode" /\ pc = "decoded"
    /\ input.bytes = <<47, 97, 98, 99, 47, 35, 0, 0>>
    /\ result = Err(Other(<<"PatternsNotYetImplemented", 35>>))

\* Reached: [0x2F, 0x01, 0x00, 0x01] fails with NotPrintableAscii(1).
C22_Reduced1 ==
    /\ input.kind = "stream" /\ op = "Address::decode" /\ pc = "decoded"
    /\ input.bytes = <<47, 1, 0, 1>>
    /\ result = Err(Other(<<"NotPrintableAscii", 1>>))

\* Reached: "/abca\0" followed by a non-null byte in the same unit fails
\* with NullThenNonNull.
C22_NullThenNonNull ==
    /\ input.kind = "stream" /\ op = "Address::decode" /\ pc = "decoded"
    /\ input.bytes = <<47, 97, 98, 99, 97, 0, 1, 0>>
    /\ result = Err(Other(<<"NullThenNonNull">>))

\* The place of the first byte, from `from` on, that satisfies neither
\* condition of a field's content: a null, or a byte outside `allowed`.
FirstEnd(bytes, from, allowed) ==
    CHOOSE i \in from..Len(bytes) :
        /\ bytes[i] = 0 \/ bytes[i] \notin allowed
        /\ \A j \in from..(i - 1) : bytes[j] # 0 /\ bytes[j] \in allowed

HasEnd(bytes, from, allowed) ==
    \E i \in from..Len(bytes) : bytes[i] = 0 \/ bytes[i] \notin allowed

\* Whether a non-null byte follows place k in the 4-byte unit of k.
NonNullAfter(bytes, k) ==
    \E j \in (k + 1)..(4 * ((k + 3) \div 4)) : bytes[j] # 0

TagLetters == {105, 102, 115, 98}

TagNamed(b) ==
    CASE b = 105 -> "Integer" [] b = 102 -> "Float"
      [] b = 115 -> "String" [] b = 98 -> "Blob"

\* C23: given complete units, Tags decoding fails with MissingComma(b) if
\* the first byte b is not ','; scanning on, the first null ends the tags
\* and a non-null byte after it in the same unit gives NullThenNonNull; a
\* non-null byte before the terminator that is not 'i', 'f', 's' or 'b'
\* gives UnrecognizedTypeTag(byte); otherwise the result is Ok of the tags in
\* stream order. The earliest violation in byte order is the one reported.
C23_TagsDecoding ==
    ( /\ input.kind = "stream" /\ op = "Tags::decode" /\ pc = "decoded"
      /\ Len(input.bytes) >= 4 )
    => LET whole == WholeUnits(input.bytes) IN
       IF whole[1] # 44 THEN result = Err(Other(<<"MissingComma", whole[1]>>))
       ELSE HasEnd(whole, 2, TagLetters) =>
            LET k == FirstEnd(whole, 2, TagLetters) IN
            IF whole[k] # 0
            THEN result = Err(Other(<<"UnrecognizedTypeTag", whole[k]>>))
            ELSE IF NonNullAfter(whole, k)
            THEN result = Err(Other(<<"NullThenNonNull">>))
            ELSE result = Ok([i \in 1..(k - 2) |-> TagNamed(whole[i + 1])])

\* ",ifs" "ib\0\0" has been decoded to five tags in stream order.
C23_Witness ==
    /\ input.kind = "stream" /\ op = "Tags::decode" /\ pc = "decoded"
    /\ input.bytes = <<44, 105, 102, 115, 105, 98, 0, 0>>
    /\ result = Ok(<<"Integer", "Float", "String", "Integer", "Blob">>)

\* Reached: ",ifs" followed by a unit that starts with 'a' fails with
\* UnrecognizedTypeTag('a').
C23_Unrecognized ==
    /\ input.kind = "stream" /\ op = "Tags::decode" /\ pc = "decoded"
    /\ input.bytes = <<44, 105, 102, 115, 97, 98, 99, 100>>
    /\ result = Err(Other(<<"UnrecognizedTypeTag", 97>>))

\* C24: String decoding scans complete units byte by byte; the first null
\* ends the string and every remaining byte of its unit must be null,
\* otherwise Err(NullThenNonNull); every byte before the terminator must be
\* ASCII, otherwise Err(NonAscii(byte)) for the first such byte; on success
\* the result is exactly the bytes before the terminator, and a unit with
\* no null makes the decoder go on with the next unit.
C24_StringDecoding ==
    ( /\ input.kind = "stream" /\ op = "DynamicString::decode" /\ pc = "decoded" )
    => LET whole == WholeUnits(input.bytes) IN
       HasEnd(whole, 1, 1..127) =>
            LET k == FirstEnd(whole, 1, 1..127) IN
            IF whole[k] # 0 THEN result = Err(Other(<<"NonAscii", whole[k]>>))
            ELSE IF NonNullAfter(whole, k)
            THEN result = Err(Other(<<"NullThenNonNull">>))
            ELSE result = Ok(SubSeq(whole, 1, k - 1))

\* "abcd" "a\0\0\0" has been decoded to "abcda": the first unit has no
\* null and the decoder went on with the second.
C24_Witness ==
    /\ input.kind = "stream" /\ op = "DynamicString::decode" /\ pc = "decoded"
    /\ input.bytes = <<97, 98, 99, 100, 97, 0, 0, 0>>
    /\ result = Ok(<<97, 98, 99, 100, 97>>)

\* Reached: a non-ASCII byte in the second unit is the one reported.
C24_NonAsciiReached ==
    /\ input.kind = "stream" /\ op = "DynamicString::decode" /\ pc = "decoded"
    /\ input.bytes = <<97, 98, 99, 100, 47, 128, 0, 0>>
    /\ result = Err(Other(<<"NonAscii", 128>>))

\* C25: Blob decoding reads ceil(length / 4) 4-byte units after the length
\* prefix, where length is the declared non-negative value of the prefix, and
\* puts all four bytes of each unit read into the result; a prefix with the
\* top bit set fails with NegativeSize before any content unit is read.
\* (Stated for streams that hold the prefix and the units the length asks
\* for; the lengths of the streams fit in the last byte of the prefix.)
C25_BlobUnits ==
    ( /\ input.kind = "stream" /\ op = "DynamicBlob::decode" /\ pc = "decoded"
      /\ Len(input.bytes) >= 4 )
    => LET x == input.bytes
           units == (x[4] + 3) \div 4
       IN  /\ x[1] >= 128 =>
                /\ result = Err(Other(<<"NegativeSize">>))
                /\ iter = Drop(x, 4)
           /\ ( /\ x[1] = 0 /\ x[2] = 0 /\ x[3] = 0
                /\ 4 + 4 * units <= Len(x) )
              => /\ result = Ok(SubSeq(x, 5, 4 + 4 * units))
                 /\ iter = Drop(x, 4 + 4 * units)

\* The same statement for a negative prefix and for the length 0.
C25_NegativeOrEmpty ==
    (Len(input.bytes) >= 4 /\ (input.bytes[1] >= 128 \/ input.bytes[4] = 0))
        => C25_BlobUnits

\* Reached: a blob of declared length 1 is decoded to the empty blob, and
\* its content unit is left unread.
C25_ContentLeftUnread ==
    /\ input.kind = "stream" /\ op = "DynamicBlob::decode" /\ pc = "decoded"
    /\ input.bytes = <<0, 0, 0, 1, 97, 0, 0, 0>>
    /\ result = Ok(<<>>)
    /\ iter = <<97, 0, 0, 0>>

\* What decoding one value per tag gives when the first failure is handed
\* on: [ok = FALSE] at the first value whose decoder fails (a blob whose
\* length prefix cannot be read included), else the values in tag order.
RECURSIVE ValuesInOrder(_, _, _)
ValuesInOrder(types, it, v) ==
    IF types = <<>> THEN [ok |-> TRUE, vals |-> v]
    ELSE LET tag == Head(types)
             d == DataDecode(tag, it, 0)
         IN  IF ~d.res.ok \/ (tag = "Blob" /\ Len(it) < 4) THEN [ok |-> FALSE]
             ELSE ValuesInOrder(Tail(types), d.it,
                                Append(v, [tag |-> tag, data |-> d.res.val]))

\* C26: Dynamic decoding decodes the Tags, then one value per tag in tag
\* order with the decoder of the tag, and propagates the first failure: if
\* the tags fail or a value fails to decode, Dynamic::decode returns an Err;
\* otherwise it returns the values in tag order.
C26_DynamicPropagates ==
    (input.kind = "stream" /\ op = "Dynamic::decode" /\ pc = "decoded") =>
        LET t == TagsDecode(input.bytes) IN
        IF ~t.res.ok THEN ~result.ok
        ELSE LET e == ValuesInOrder(t.res.val, t.it, <<>>) IN
             IF e.ok THEN result = Ok(e.vals) ELSE ~result.ok

\* The same statement for the streams whose tags fail or whose values all
\* decode.
C26_WithoutValueFailure ==
    (input.kind = "stream" /\ op = "Dynamic::decode" /\ pc = "decoded") =>
        LET t == TagsDecode(input.bytes) IN
        IF ~t.res.ok THEN ~result.ok
        ELSE LET e == ValuesInOrder(t.res.val, t.it, <<>>) IN
             e.ok => result = Ok(e.vals)

\* Reached: ",s\0\0" "a\0\0\0" is decoded to the one string "a".
C26_StringDecoded ==
    /\ input.kind = "stream" /\ op = "Dynamic::decode" /\ pc = "decoded"
    /\ input.bytes = <<44, 115, 0, 0, 97, 0, 0, 0>>
    /\ result = Ok(<<[tag |-> "String", data |-> <<97>>]>>)

\* Reached: ",s\0\0" followed by a non-ASCII byte is decoded to Ok.
C26_FailureSwallowed ==
    /\ input.kind = "stream" /\ op = "Dynamic::decode" /\ pc = "decoded"
    /\ input.bytes = <<44, 115, 0, 0, 128, 0, 0, 0>>
    /\ result.ok

\* The padded encoding of one element on its own: the 4 big-endian bytes of
\* an integer or a float, a string with its terminator and zero padding, the
\* bytes of a blob with zero padding.
ElementBytes(value) ==
    CASE value.tag = "Integer" -> BigEndian(value.i)
      [] value.tag = "Float" -> BigEndian(value.f)
      [] value.tag = "String" -> Padded(value.s \o <<0>>)
      [] value.tag = "Blob" -> Padded(value.b)

\* C27: for a tuple of atomic values type_tag() yields one tag per element
\* in declared order, 'i' for an integer, 'f' for a float, 's' for a string
\* and 'b' for a blob, and chain() yields the concatenation of each
\* element's own padded encoding in declared order; the empty tuple yields
\* no tags and no bytes; the tuples of test.rs give "iisfff", "f" and "ibb".
C27_TupleOrdering ==
    /\ (input.kind = "message" /\ pc = "tagged") =>
          /\ wire = [i \in 1..Len(input.values) |-> TagChar(input.values[i])]
          /\ input.values = <<>> => wire = <<>>
          /\ input = TupleIisfff => wire = <<105, 105, 115, 102, 102, 102>>
          /\ input = MessageOscillator => wire = <<102>>
          /\ input = TupleIbb => wire = <<105, 98, 98>>
    /\ (input.kind = "message" /\ pc = "chained") =>
          /\ wire = Concat([i \in 1..Len(input.values) |-> ElementBytes(input.values[i])])
          /\ input.values = <<>> => wire = <<>>

\* Both orders matter: the chained bytes of an integer ahead of a string.
C27_Witness ==
    /\ input.kind = "message"
    /\ pc = "chained"
    /\ Len(input.values) = 2
    /\ input.values[1].tag = "Integer"
    /\ input.values[2].tag = "String"
    /\ Len(wire) = 12

\* type_tag of the six-element tuple of test.rs.
C27_Iisfff ==
    /\ input = TupleIisfff
    /\ pc = "tagged"
    /\ Len(wire) = 6

\* The character of a decoded tag.
TagLetter(t) ==
    CASE t = "Integer" -> 105
      [] t = "Float" -> 102
      [] t = "String" -> 115
      [] t = "Blob" -> 98

\* The length of the encoding of a value a decoder returned: an address as
\* '/' + segment for each path segment and the method, tags as ',' + one
\* character per tag, a string as its bytes; each followed by a null and
\* zero padding to a multiple of 4.
EncodedLen(name, v) ==
    CASE name = "Address::decode" ->
            Len(Padded(SlashJoin(v.path \o <<v.method>>) \o <<0>>))
      [] name = "Tags::decode" ->
            Len(Padded(<<44>> \o [i \in 1..Len(v) |-> TagLetter(v[i])] \o <<0>>))
      [] name = "DynamicString::decode" ->
            Len(Padded(v \o <<0>>))

\* C28: the decoders take bytes from the iterator four at a time (what is
\* consumed is a multiple of 4 unless the stream ended inside a unit), and
\* when Address::decode, Tags::decode or DynamicString::decode returns Ok(v)
\* the number of bytes consumed is the length of the encoding of v, a
\* multiple of 4, and the later bytes are left in the iterator in order.
C28_WholeUnitsConsumed ==
    (/\ input.kind = "stream" /\ pc = "decoded"
     /\ op \in {"Aligned4B::decode", "Address::decode", "Tags::decode",
                "DynamicString::decode"}) =>
        LET consumed == Len(input.bytes) - Len(iter) IN
        /\ iter = Drop(input.bytes, consumed)
        /\ consumed % 4 = 0 \/ (iter = <<>> /\ result = Err(Misaligned))
        /\ (result.ok /\ op # "Aligned4B::decode") =>
              /\ consumed = EncodedLen(op, result.val)
              /\ consumed % 4 = 0

\* "abcd" "a\0\0\0" has been decoded as a string from a stream that goes on:
\* the two units are consumed and the three bytes after them are left.
C28_Witness ==
    /\ input.kind = "stream" /\ pc = "decoded" /\ op = "DynamicString::decode"
    /\ input.bytes = <<97, 98, 99, 100, 97, 0, 0, 0, 44, 105, 0>>
    /\ result = Ok(<<97, 98, 99, 100, 97>>)
    /\ iter = <<44, 105, 0>>

\* An address of one unit decoded ahead of a second unit, which is left.
C28_AddressLeavesNext ==
    /\ input.kind = "stream" /\ pc = "decoded" /\ op = "Address::decode"
    /\ result.ok
    /\ Len(input.bytes) = 8
    /\ Len(iter) = 4

\* Tags of two units decoded.
C28_TagsTwoUnits ==
    /\ input.kind = "stream" /\ pc = "decoded" /\ op = "Tags::decode"
    /\ result.ok
    /\ Len(input.bytes) - Len(iter) = 8

\* A value as its decoder returns it: an integer as its 4 big-endian bytes,
\* a string as its bytes.
DecodedValue(value) ==
    CASE value.tag = "Integer" -> [tag |-> "Integer", data |-> BigEndian(value.i)]
      [] value.tag = "String" -> [tag |-> "String", data |-> value.s]

IntegersAndStrings(values) ==
    \A i \in 1..Len(values) : values[i].tag \in {"Integer", "String"}

\* C29: for every valid address and every sequence of integer and string
\* values, Address::decode, then Tags::decode, then one value decoder per
\* decoded tag, run on the one byte stream of the Message, return the
\* original address, the tag list of the values and the original values in
\* order, and leave the stream exhausted.
C29_MessageRoundTrip ==
    (/\ input.kind = "message" /\ pc = "decoded"
     /\ IntegersAndStrings(input.values)) =>
        /\ result = Ok([address |-> [path |-> input.path, method |-> input.method],
                        tags |-> [i \in 1..Len(input.values) |-> input.values[i].tag],
                        values |-> [i \in 1..Len(input.values) |->
                                       DecodedValue(input.values[i])]])
        /\ iter = <<>>

\* /oscillator/4/frequency with -1 and "hello" has gone through.
C29_Witness ==
    /\ input.kind = "message" /\ pc = "decoded"
    /\ input.path = <<Oscillator, Four>>
    /\ input.values = <<[tag |-> "Integer", i |-> -1], [tag |-> "String", s |-> Hello]>>
    /\ result.ok
    /\ result.val.tags = <<"Integer", "String">>
    /\ Len(wire) = 40
    /\ iter = <<>>

\* A message with no values has gone through.
C29_NoValues ==
    /\ input.kind = "message" /\ pc = "decoded"
    /\ input.values = <<>>
    /\ result.ok

\* A decoder has returned Ok, Other or Misaligned, or an iterator None.
Finished ==
    \/ /\ pc = "returned"
       /\ \/ result.ok
          \/ result.err = Misaligned
          \/ Head(result.err) = "Other"
    \/ /\ pc = "done"
       /\ wire = <<>>

\* C30: on every finite input each decoder (Address, Tags, DynamicString)
\* eventually returns Ok, Other or Misaligned, every turn of its loop either
\* returning or consuming one more 4-byte unit; and iterating an encoded
\* Address, string or Message eventually yields None, also for an address
\* with empty segments.
C30_Termination ==
    /\ <>Finished
    /\ [][pc = "looping" =>
             (pc' = "returned" \/ Len(iter') = Len(iter) - 4)]_vars

\* Address::decode has returned Ok after three units.
C30_Witness ==
    /\ pc = "returned" /\ op = "Address::decode"
    /\ Len(input.bytes) = 12
    /\ result.ok
    /\ iter = <<>>

\* The iterator of an address whose path is one empty segment has yielded
\* None.
C30_EmptySegmentIterated ==
    /\ pc = "done"
    /\ input.kind = "Address"
    /\ input.address.path = <<<<>>>>

\* The iterator of a message has yielded None.
C30_MessageIterated ==
    /\ pc = "done"
    /\ input.kind = "Message"
    /\ Len(input.message.data) = 5

====
